---- MODULE Spec2Model ----
(***************************************************************************)
(* Qless canteen backend: the order queue state machine, the queue         *)
(* position query and the socket broadcaster.                              *)
(*                                                                         *)
(* Every request handler is cut at its awaits.  A step is either one       *)
(* repository operation together with the synchronous continuation that    *)
(* runs when it resolves, or a continuation alone where another handler    *)
(* can run between the repository operation and the continuation.          *)
(* `res` and `emitted` hold what the step just taken sent to the HTTP      *)
(* caller and to the sockets; a step that sends nothing clears them.       *)
(***************************************************************************)
EXTENDS Integers, Sequences, FiniteSets

\* ---------------------------------------------------------------- bounds
MaxOrders == 2      \* orders the repository holds when the process starts
MaxCalls  == 2      \* order-creation requests accepted over a run
MaxClock  == 1      \* last millisecond the wall clock reaches
NumPost   == 2      \* order-creation requests in flight at once
NumPatch  == 2      \* status-transition requests in flight at once
NumGet    == 1      \* order fetches in flight at once
NumCycles == 1      \* runs of emitQueueUpdate in flight at once
MaxVersion == 2     \* cart requests are accepted while the cart's __v is below
MaxUnits  == 2      \* units a cart holds after an accepted add-to-cart
MaxMenu   == 4      \* catalog ids in use; a catalog item is created while one is left
MaxUsers  == 3      \* user ids in use; a registration is taken up while one is left

\* ------------------------------------------------------------- constants
ActiveStatuses == {"pending", "preparing"}

StatusEnum == <<"pending", "preparing", "ready", "completed">>

VALID_TRANSITIONS_back ==
  [pending   |-> <<"preparing">>,
   preparing |-> <<"ready">>,
   ready     |-> <<"completed", "preparing">>,
   completed |-> <<>>]

VALID_TRANSITIONS_reopen ==
  [pending   |-> <<"preparing">>,
   preparing |-> <<"ready", "pending">>,
   ready     |-> <<"completed">>,
   completed |-> <<>>]

VALID_TRANSITIONS ==
  [pending   |-> <<"preparing">>,
   preparing |-> <<"ready">>,
   ready     |-> <<"completed">>,
   completed |-> <<>>]

\* Array.prototype.join(', ')
RECURSIVE join(_)
join(arr) ==
  IF Len(arr) = 0 THEN ""
  ELSE IF Len(arr) = 1 THEN arr[1]
  ELSE arr[1] \o ", " \o join(Tail(arr))

allowedText_bare(allowed) == join(allowed)

\* allowed.join(', ') || 'none (order is completed)'
allowedText(allowed) ==
  IF join(allowed) = "" THEN "none (order is completed)" ELSE join(allowed)

\* Array.prototype.includes
includes(arr, x) == \E k \in DOMAIN arr : arr[k] = x

NoUser == 0

\* Path segments, texts and ids.  An _id is an ObjectId, written here as a
\* positive number, and the same number stands for its text in lower-case
\* hexadecimal digits, which is what toString gives.  MySegment stands for
\* the text "my", and for any other non-empty text that is not 24 hexadecimal
\* digits; EmptyText for the empty text and for a missing field;
\* UpperCase(id) for the text of `id` in upper-case digits.  Casting "my" or
\* the empty text to an ObjectId fails, and a query by _id then rejects with
\* a CastError; the upper-case text casts to the id.
MySegment == 0
EmptyText == 0 - 1
UpperCase(id) == 0 - id - 1
isObjectId_any(seg) == TRUE
isObjectId(seg) == seg \notin {MySegment, EmptyText}
castObjectId(text) == IF text < EmptyText THEN 0 - text - 1 ELSE text
NoRes  == [op |-> "none"]
NoEmit == [by |-> "none", read |-> <<>>, active |-> {}, msgs |-> <<>>]

VARIABLES
  orders,     \* the Order collection; _id is the index
  hist,       \* per order: the arrival number of the call that created it and
              \* the queue position its creation response reported (0: not sent)
  menu,       \* the MenuItem collection, by _id
  clock,      \* Date.now(), in milliseconds
  ncalls,     \* creation requests that got to their first lookup so far
  post,       \* POST /api/orders handlers in flight
  patch,      \* PATCH /api/orders/:id/status handlers in flight
  get,        \* GET /api/orders/:id handlers in flight
  cycles,     \* runs of emitQueueUpdate in flight
  users,      \* the User collection, by _id
  carts,      \* the Cart collection, by userId: the items, the version __v, the _id
  fromcart,   \* POST /api/orders/from-cart handlers in flight
  side,       \* handlers of the cart and account routes in flight
  res,        \* the HTTP response sent by the step just taken
  emitted     \* the socket messages emitted by the step just taken

vars == <<orders, hist, menu, clock, ncalls, post, patch, get, cycles, users, carts,
          fromcart, side, res, emitted>>

OrderIds == 1..Len(orders)

isActive(doc) == doc.status \in ActiveStatuses

ActiveIds(ords) == {i \in 1..Len(ords) : isActive(ords[i])}

\* ------------------------------------------------- Order.getQueuePosition
RECURSIVE countDocuments_lte(_, _, _)
countDocuments_lte(ords, k, createdAt) ==
  IF k = 0 THEN 0
  ELSE countDocuments_lte(ords, k - 1, createdAt)
       + (IF ords[k].status \in {"pending", "preparing"}
             /\ ords[k].createdAt <= createdAt
          THEN 1 ELSE 0)

\* countDocuments({status: {$in: [pending, preparing]}, createdAt: {$lt: t}})
\* over the first k documents of the collection
RECURSIVE countDocuments(_, _, _)
countDocuments(ords, k, createdAt) ==
  IF k = 0 THEN 0
  ELSE countDocuments(ords, k - 1, createdAt)
       + (IF ords[k].status \in {"pending", "preparing"}
             /\ ords[k].createdAt < createdAt
          THEN 1 ELSE 0)

getQueuePosition_zero(doc, ords) == countDocuments(ords, Len(ords), doc.createdAt)
getQueuePosition(doc, ords) == countDocuments(ords, Len(ords), doc.createdAt) + 1

\* ------------------------------------------------------ socket broadcaster
\* A document as a query returns it, with its _id.
Doc(ords, i) ==
  [id |-> i, status |-> ords[i].status, customerName |-> ords[i].customerName,
   createdAt |-> ords[i].createdAt]

findActiveSorted_all(ords) ==
  {s \in [1..Len(ords) -> 1..Len(ords)] :
     /\ \A a, b \in DOMAIN s : a # b => s[a] # s[b]
     /\ \A a, b \in DOMAIN s : a < b => ords[s[a]].createdAt <= ords[s[b]].createdAt}

findActiveSorted_desc(ords) ==
  LET A == {i \in 1..Len(ords) : ords[i].status \in {"pending", "preparing"}}
  IN {s \in [1..Cardinality(A) -> A] :
        /\ \A a, b \in DOMAIN s : a # b => s[a] # s[b]
        /\ \A a, b \in DOMAIN s : a < b => ords[s[a]].createdAt >= ords[s[b]].createdAt}

\* Order.find({status: {$in: [pending, preparing]}}).sort({createdAt: 1}):
\* the id sequences the query can return.  Documents with equal createdAt
\* come back in an order the sort does not fix.
findActiveSorted(ords) ==
  LET A == {i \in 1..Len(ords) : ords[i].status \in {"pending", "preparing"}}
  IN {s \in [1..Cardinality(A) -> A] :
        /\ \A a, b \in DOMAIN s : a # b => s[a] # s[b]
        /\ \A a, b \in DOMAIN s : a < b => ords[s[a]].createdAt <= ords[s[b]].createdAt}

\* activeOrders.map((order, index) => ({..., queuePosition: index + 1}));
\* TLA+ sequences start at 1, so the model's index is the code's index + 1.
queueData(activeOrders) ==
  [index \in DOMAIN activeOrders |->
     [orderId       |-> activeOrders[index].id,
      status        |-> activeOrders[index].status,
      customerName  |-> activeOrders[index].customerName,
      queuePosition |-> index]]

\* io.emit('queue:update', data)
GlobalMsg(data) == [room |-> "*", id |-> 0, event |-> "queue:update", data |-> data]

positionMsgs_toFirst(data) ==
  [k \in DOMAIN data |->
     [room |-> "order", id |-> data[1].orderId, event |-> "queue:position",
      data |-> [orderId       |-> data[k].orderId,
                status        |-> data[k].status,
                queuePosition |-> data[k].queuePosition]]]

positionMsgs_shifted(data) ==
  [k \in DOMAIN data |->
     [room |-> "order", id |-> data[k].orderId, event |-> "queue:position",
      data |-> [orderId       |-> data[k].orderId,
                status        |-> data[k].status,
                queuePosition |-> data[k].queuePosition + 1]]]

\* for (const entry of queueData) io.to(`order:${entry.orderId}`).emit(...)
positionMsgs(data) ==
  [k \in DOMAIN data |->
     [room |-> "order", id |-> data[k].orderId, event |-> "queue:position",
      data |-> [orderId       |-> data[k].orderId,
                status        |-> data[k].status,
                queuePosition |-> data[k].queuePosition]]]

\* io.to('kitchen').emit('kitchen:queue', data)
KitchenMsg(data) == [room |-> "kitchen", id |-> 0, event |-> "kitchen:queue", data |-> data]

\* What one run of emitQueueUpdate emits once its find has resolved.
emitQueueUpdateMsgs(activeOrders) ==
  LET data == queueData(activeOrders)
  IN <<GlobalMsg(data)>> \o positionMsgs(data) \o <<KitchenMsg(data)>>

\* emitOrderReady(orderId)
emitOrderReadyMsgs(orderId) ==
  << [room |-> "order", id |-> orderId, event |-> "order:ready",
      data |-> [orderId |-> orderId]],
     GlobalMsg(<<>>) >>

\* ------------------------------------------------------------ middleware
\* auth: 401 without a Bearer token or when jwt.verify throws; any token
\* signed with JWT_SECRET passes, whatever its payload.
auth(token) ==
  IF token = "none" THEN "401 No token provided"
  ELSE IF token = "invalid" THEN "401 Invalid or expired token"
  ELSE "next"

\* jwt.verify: the payload of a token signed with JWT_SECRET.  "user" is the
\* token of the stored customer, "gone" that of an account deleted since.
decoded(token) ==
  CASE token = "admin"   -> [type |-> "", role |-> "admin", id |-> 1]
    [] token = "kitchen" -> [type |-> "", role |-> "kitchen", id |-> 2]
    [] token = "user"    -> [type |-> "user", role |-> "", id |-> 1]
    [] token = "gone"    -> [type |-> "user", role |-> "", id |-> 2]

\* userAuth: as auth, and 403 when the payload is not of type 'user'.
userAuth(token) ==
  IF token = "none" THEN "401 No token provided"
  ELSE IF token = "invalid" THEN "401 Invalid or expired token"
  ELSE IF decoded(token).type # "user" THEN "403 requires a user token"
  ELSE "next"

\* requireRole(...roles), after auth
requireRole(roles, token) ==
  IF decoded(token).role \notin roles THEN "403 Forbidden" ELSE "next"

\* The answer of the 404 handler of the app: a path in which the segment of
\* an :id or a :menuItemId is the empty text matches no such route, and no
\* middleware of the route runs.
RouteNotFound(op) == [op |-> op, code |-> 404, type |-> "Route not found"]

IdlePost  == [pc |-> "idle"]
IdlePatch == [pc |-> "idle"]
IdleGet   == [pc |-> "idle"]
IdleCycle == [pc |-> "idle"]
IdleFrom  == [pc |-> "idle"]

\* What becomes of a request whose handler throws after an await.  The
\* rejection of the async handler is either passed to the error handler of
\* app.js (500), or left unhandled, and then the request is never answered
\* and the process either goes on or exits, dropping every request in flight.
ThrowOutcomes == {"500", "hang", "exit"}

Idled(slots) == [k \in DOMAIN slots |-> [pc |-> "idle"]]

\* The async handler of route `op` rejects before it changed anything and
\* before it awaited anything it would have to resume from.
Rejected(op, outcome) ==
  /\ res' = IF outcome = "500"
            THEN [op |-> op, code |-> 500, type |-> "Internal server error"]
            ELSE NoRes
  /\ IF outcome = "exit"
     THEN /\ post' = Idled(post)
          /\ patch' = Idled(patch)
          /\ get' = Idled(get)
          /\ cycles' = Idled(cycles)
          /\ fromcart' = Idled(fromcart)
          /\ side' = Idled(side)
     ELSE UNCHANGED <<post, patch, get, cycles, fromcart, side>>

Tea == [menuItemId |-> 1, name |-> "Tea", quantity |-> 1, price |-> 50]

\* The orders a repository can hold when the process starts: each was
\* created by an earlier run of the creation handler and moved by earlier
\* transitions.
StoredOrders ==
  [status : {"pending", "preparing", "ready", "completed"},
   createdAt : 0..MaxClock,
   customerName : {"Ann"},
   userId : {NoUser},
   items : {<<Tea>>},
   totalAmount : {50}]

\* One of them: an order that waits to be prepared.
StoredOrder ==
  [status |-> "pending", createdAt |-> 0, customerName |-> "Ann", userId |-> NoUser,
   items |-> <<Tea>>, totalAmount |-> 50]

Repositories == UNION {[1..n -> StoredOrders] : n \in 0..MaxOrders}

\* One line of a creation request or of a cart.
Item(m, q) == [menuItemId |-> m, quantity |-> q]

\* The carts a customer's account can hold when the process starts: none (the
\* Cart.create of the registration failed), an empty one, or one filled by
\* earlier add-to-cart requests; an item of it may since have been made
\* unavailable (2) or deleted from the catalog (3).
StoredCarts ==
  {<<>>, <<[items |-> <<>>, v |-> 0, id |-> 1]>>,
   <<[items |-> <<Item(1, 1)>>, v |-> 0, id |-> 1]>>,
   <<[items |-> <<Item(1, 2), Item(2, 1)>>, v |-> 0, id |-> 1]>>,
   <<[items |-> <<Item(3, 1)>>, v |-> 0, id |-> 1]>>}

\* The process has started (connectDB, initSocket) on the order repository
\* `repo` and the cart collection `cartsAtStart`, with no request in flight.
BootWith(repo, cartsAtStart, nPost, nFrom, nPatch, nGet, nCycles, nSide) ==
  /\ side = [s \in 1..nSide |-> [pc |-> "idle"]]
  /\ orders = repo
  /\ hist = [i \in DOMAIN repo |-> [call |-> 0, createdPos |-> 0]]
  /\ menu = [m \in {1, 2} |->
               IF m = 1 THEN [name |-> "Tea", price |-> 50, category |-> "Drink",
                              isAvailable |-> TRUE]
                        ELSE [name |-> "Bun", price |-> 20, category |-> "Snack",
                              isAvailable |-> FALSE]]
  /\ clock = 0
  /\ ncalls = 0
  /\ post = [c \in 1..nPost |-> IdlePost]
  /\ patch = [p \in 1..nPatch |-> IdlePatch]
  /\ get = [g \in 1..nGet |-> IdleGet]
  /\ cycles = [y \in 1..nCycles |-> IdleCycle]
  /\ users = [u \in {1} |-> [name |-> "Bob", phone |-> 1]]
  /\ carts = cartsAtStart
  /\ fromcart = [f \in 1..nFrom |-> IdleFrom]
  /\ res = NoRes
  /\ emitted = NoEmit

\* A start where no request to the cart and account routes is made.
Boot(repo, cartsAtStart, nPost, nFrom, nPatch, nGet, nCycles) ==
  BootWith(repo, cartsAtStart, nPost, nFrom, nPatch, nGet, nCycles, 0)

\* A start with one customer, whose cart holds one item, and no
\* create-from-cart request.
Started(repo, nPost, nPatch, nGet, nCycles) ==
  Boot(repo, <<[items |-> <<Item(1, 1)>>, v |-> 0, id |-> 1]>>, nPost, 0, nPatch, nGet, nCycles)

\* A first start, on an empty repository, with one customer registered.
Init ==
  BootWith(<<>>, <<[items |-> <<Item(1, 1)>>, v |-> 0, id |-> 1]>>, 1, 1, 1, 1, 1, 1)

\* ------------------------------------------------------------- the clock
\* { timestamps: true }: createdAt is the wall clock in milliseconds.
Tick ==
  /\ UNCHANGED side
  /\ clock < MaxClock
  /\ clock' = clock + 1
  /\ res' = NoRes
  /\ emitted' = NoEmit
  /\ UNCHANGED <<orders, hist, menu, ncalls, post, patch, get, cycles, users, carts,
                 fromcart>>

\* --------------------------------------------------------- emitQueueUpdate
FreeCycles == {y \in DOMAIN cycles : cycles[y].pc = "idle"}

\* emitQueueUpdate() called and not awaited: `if (!io) return` passes, since
\* app.js runs initSocket before any route, and the find is issued.  The
\* model holds a bounded number of runs: a continuation that starts one is
\* taken once a run has finished (FreeCycles # {} in its guard).
StartCycle ==
  LET y == CHOOSE f \in FreeCycles : \A h \in FreeCycles : f <= h
  IN [cycles EXCEPT ![y] = [pc |-> "find"]]

\* The find of one cycle resolves: the cycle now holds its activeOrders.
\* `active` records which orders were active in the repository at this read.
EmitFind(y) ==
  /\ UNCHANGED side
  /\ cycles[y].pc = "find"
  /\ \E s \in findActiveSorted(orders) :
       cycles' = [cycles EXCEPT ![y] =
                    [pc |-> "emit",
                     activeOrders |-> [k \in DOMAIN s |-> Doc(orders, s[k])],
                     active |-> ActiveIds(orders)]]
  /\ res' = NoRes
  /\ emitted' = NoEmit
  /\ UNCHANGED <<orders, hist, menu, clock, ncalls, post, patch, get, users, carts,
                 fromcart>>

\* The continuation of emitQueueUpdate: the three emits, with no await between.
EmitPublish(y) ==
  /\ UNCHANGED side
  /\ cycles[y].pc = "emit"
  /\ emitted' = [by |-> "emitQueueUpdate",
                 read |-> cycles[y].activeOrders,
                 active |-> cycles[y].active,
                 msgs |-> emitQueueUpdateMsgs(cycles[y].activeOrders)]
  /\ cycles' = [cycles EXCEPT ![y] = IdleCycle]
  /\ res' = NoRes
  /\ UNCHANGED <<orders, hist, menu, clock, ncalls, post, patch, get, users, carts,
                 fromcart>>

\* ------------------------------------------- PATCH /api/orders/:id/status
\* The request arrives, passes auth and validation, findById resolves and
\* the transition table is checked against the status just read.  findById
\* rejects when the :id segment is not an ObjectId; with an empty segment the
\* path matches no route.
PatchFind(p, token, id, status) ==
  /\ patch[p].pc = "idle"
  /\ emitted' = NoEmit
  /\ UNCHANGED <<orders, hist, menu, clock, ncalls, users, carts>>
  /\ IF /\ id # EmptyText
        /\ auth(token) = "next" /\ includes(StatusEnum, status) /\ ~isObjectId(id)
     THEN \E outcome \in ThrowOutcomes : Rejected("PATCH", outcome)
     ELSE /\ UNCHANGED <<post, get, cycles, fromcart, side>>
          /\ IF id = EmptyText
             THEN /\ res' = RouteNotFound("PATCH")
                  /\ patch' = patch
             ELSE IF auth(token) # "next"
             THEN /\ res' = [op |-> "PATCH", code |-> 401, type |-> auth(token)]
                  /\ patch' = patch
             ELSE IF ~includes(StatusEnum, status)
             THEN /\ res' = [op |-> "PATCH", code |-> 400, type |-> "Invalid status"]
                  /\ patch' = patch
             ELSE IF castObjectId(id) \notin OrderIds
             THEN /\ res' = [op |-> "PATCH", code |-> 404, type |-> "Order not found"]
                  /\ patch' = patch
             ELSE LET order == orders[castObjectId(id)]
                      allowed == VALID_TRANSITIONS[order.status]
                  IN IF ~includes(allowed, status)
                     THEN /\ res' = [op |-> "PATCH", code |-> 400,
                                     type |-> "Cannot transition",
                                     id |-> castObjectId(id), status |-> status,
                                     from |-> order.status,
                                     allowed |-> allowedText(allowed)]
                          /\ patch' = patch
                     ELSE /\ res' = NoRes
                          /\ patch' = [patch EXCEPT ![p] =
                                         [pc |-> "save", id |-> castObjectId(id), status |-> status,
                                          read |-> order.status]]

PatchSave_all(p) ==
  /\ UNCHANGED side
  /\ patch[p].pc = "save"
  /\ orders' = [i \in DOMAIN orders |-> [orders[i] EXCEPT !.status = patch[p].status]]
  /\ patch' = [patch EXCEPT ![p].pc = "saved"]
  /\ res' = NoRes
  /\ emitted' = NoEmit
  /\ UNCHANGED <<hist, menu, clock, ncalls, post, get, cycles, users, carts,
                 fromcart>>

PatchSave_unwritten(p) ==
  /\ UNCHANGED side
  /\ patch[p].pc = "save"
  /\ patch' = [patch EXCEPT ![p].pc = "saved"]
  /\ res' = NoRes
  /\ emitted' = NoEmit
  /\ UNCHANGED <<orders, hist, menu, clock, ncalls, post, get, cycles, users, carts,
                 fromcart>>

\* order.save() reaches the repository: it sets the one modified path.
PatchSave(p) ==
  /\ UNCHANGED side
  /\ patch[p].pc = "save"
  /\ orders' = [orders EXCEPT ![patch[p].id].status = patch[p].status]
  /\ patch' = [patch EXCEPT ![p].pc = "saved"]
  /\ res' = NoRes
  /\ emitted' = NoEmit
  /\ UNCHANGED <<hist, menu, clock, ncalls, post, get, cycles, users, carts,
                 fromcart>>

\* After the save: emitOrderReady when the new status is ready, then
\* emitQueueUpdate() is started and the order is returned.
PatchAfterSave(p) ==
  /\ UNCHANGED side
  /\ patch[p].pc = "saved"
  /\ FreeCycles # {}
  /\ emitted' = IF patch[p].status = "ready"
                THEN [by |-> "emitOrderReady", read |-> <<>>,
                      active |-> ActiveIds(orders),
                      msgs |-> emitOrderReadyMsgs(patch[p].id)]
                ELSE NoEmit
  /\ cycles' = StartCycle
  /\ res' = [op |-> "PATCH", code |-> 200, type |-> "ok", id |-> patch[p].id,
             status |-> patch[p].status, from |-> patch[p].read]
  /\ patch' = [patch EXCEPT ![p] = IdlePatch]
  /\ UNCHANGED <<orders, hist, menu, clock, ncalls, post, get, users, carts,
                 fromcart>>

\* ------------------------------------------------------ POST /api/orders
\* express-validator: customerName not empty after trim, items an array of at
\* least one entry, each with a menuItemId and an integer quantity >= 1.
PostValid(customerName, items) ==
  /\ customerName # ""
  /\ Len(items) >= 1
  /\ \A k \in DOMAIN items :
       items[k].menuItemId # EmptyText /\ items[k].quantity >= 1

\* The handler in slot c rejects at a MenuItem.findById whose argument
\* is no ObjectId.
PostThrows(c, outcome) ==
  /\ res' = IF outcome = "500"
            THEN [op |-> "POST", code |-> 500, type |-> "Internal server error"]
            ELSE NoRes
  /\ IF outcome = "exit"
     THEN /\ post' = Idled(post)
          /\ patch' = Idled(patch)
          /\ get' = Idled(get)
          /\ cycles' = Idled(cycles)
          /\ fromcart' = Idled(fromcart)
          /\ side' = Idled(side)
     ELSE /\ post' = [post EXCEPT ![c] = IdlePost]
          /\ UNCHANGED <<patch, get, cycles, fromcart, side>>

\* The request arrives and is validated, and the first MenuItem.findById is
\* called: it rejects at once when the menuItemId is no ObjectId.
PostOrder(c, customerName, items) ==
  /\ post[c].pc = "idle"
  /\ emitted' = NoEmit
  /\ UNCHANGED <<orders, hist, menu, clock, users, carts>>
  /\ IF ~PostValid(customerName, items)
     THEN /\ res' = [op |-> "POST", code |-> 400, type |-> "validation"]
          /\ UNCHANGED <<post, ncalls, patch, get, cycles, fromcart, side>>
     ELSE IF ~isObjectId(items[1].menuItemId)
     THEN /\ ncalls' = ncalls
          /\ \E outcome \in ThrowOutcomes : PostThrows(c, outcome)
     ELSE /\ UNCHANGED <<patch, get, cycles, fromcart, side>>
          /\ ncalls < MaxCalls
          /\ ncalls' = ncalls + 1
          /\ res' = NoRes
          /\ post' = [post EXCEPT ![c] =
                        [pc |-> "lookup", call |-> ncalls + 1,
                         customerName |-> customerName, items |-> items,
                         i |-> 1, orderItems |-> <<>>, totalAmount |-> 0]]

itemStatus_lenient(menuItemId) ==
  IF menuItemId \notin DOMAIN menu THEN "not found" ELSE "ok"

\* MenuItem.findById(id) and the two checks made on its result.
itemStatus(menuItemId) ==
  IF menuItemId \notin DOMAIN menu THEN "not found"
  ELSE IF ~menu[menuItemId].isAvailable THEN "unavailable"
  ELSE "ok"

lineTotal_unit(menuItem, item) == menuItem.price

\* const lineTotal = menuItem.price * item.quantity
lineTotal(menuItem, item) == menuItem.price * item.quantity

\* The item of the loop after the one in hand cannot be looked up: its
\* menuItemId is no ObjectId.
nextThrows(items, i) == i < Len(items) /\ ~isObjectId(items[i + 1].menuItemId)

\* One MenuItem.findById of the loop resolves.  When the item passes its
\* checks the loop goes on to the findById of the next item, which rejects
\* at once when that menuItemId is no ObjectId.  After the last item the
\* handler calls Order.create, which stamps createdAt with the clock.
PostLookup(c) ==
  /\ post[c].pc = "lookup"
  /\ emitted' = NoEmit
  /\ UNCHANGED <<orders, hist, menu, clock, ncalls, users, carts>>
  /\ LET item == post[c].items[post[c].i]
         id == castObjectId(item.menuItemId)
     IN IF \/ ~isObjectId(item.menuItemId)
           \/ itemStatus(id) = "ok" /\ nextThrows(post[c].items, post[c].i)
        THEN \E outcome \in ThrowOutcomes : PostThrows(c, outcome)
        ELSE /\ UNCHANGED <<patch, get, cycles, fromcart, side>>
             /\ IF itemStatus(id) = "not found"
                THEN /\ res' = [op |-> "POST", code |-> 400,
                                type |-> "Menu item not found"]
                     /\ post' = [post EXCEPT ![c] = IdlePost]
                ELSE LET menuItem == menu[id]
                     IN IF itemStatus(id) = "unavailable"
                        THEN /\ res' = [op |-> "POST", code |-> 400,
                                        type |-> "currently unavailable"]
                             /\ post' = [post EXCEPT ![c] = IdlePost]
                        ELSE LET pushed == Append(post[c].orderItems,
                                             [menuItemId |-> id,
                                              name |-> menuItem.name,
                                              quantity |-> item.quantity,
                                              price |-> menuItem.price])
                             IN /\ res' = NoRes
                                /\ post' = [post EXCEPT ![c] =
                                     IF post[c].i < Len(post[c].items)
                                     THEN [@ EXCEPT !.i = @ + 1, !.orderItems = pushed,
                                                    !.totalAmount =
                                                      @ + lineTotal(menuItem, item)]
                                     ELSE [pc |-> "insert", call |-> post[c].call,
                                           doc |-> [status |-> "pending",
                                                    createdAt |-> clock,
                                                    customerName |-> post[c].customerName,
                                                    userId |-> NoUser,
                                                    items |-> pushed,
                                                    totalAmount |-> post[c].totalAmount
                                                      + lineTotal(menuItem, item)]]]

\* The insert of Order.create reaches the repository.
PostInsert(c) ==
  /\ UNCHANGED side
  /\ post[c].pc = "insert"
  /\ orders' = Append(orders, post[c].doc)
  /\ hist' = Append(hist, [call |-> post[c].call, createdPos |-> 0])
  /\ post' = [post EXCEPT ![c] = [pc |-> "count", id |-> Len(orders) + 1,
                                  doc |-> post[c].doc]]
  /\ res' = NoRes
  /\ emitted' = NoEmit
  /\ UNCHANGED <<menu, clock, ncalls, patch, get, cycles, users, carts,
                 fromcart>>

\* The count of order.getQueuePosition() resolves; emitQueueUpdate() is
\* started and the order is returned with its position.
PostCount(c) ==
  /\ UNCHANGED side
  /\ post[c].pc = "count"
  /\ FreeCycles # {}
  /\ LET queuePosition == getQueuePosition(post[c].doc, orders)
     IN /\ res' = [op |-> "POST", code |-> 201, type |-> "created",
                   id |-> post[c].id, order |-> post[c].doc,
                   queuePosition |-> <<queuePosition>>]
        /\ hist' = [hist EXCEPT ![post[c].id].createdPos = queuePosition]
  /\ cycles' = StartCycle
  /\ post' = [post EXCEPT ![c] = IdlePost]
  /\ emitted' = NoEmit
  /\ UNCHANGED <<orders, menu, clock, ncalls, patch, get, users, carts,
                 fromcart>>

\* -------------------------------------------- POST /api/orders/from-cart
\* cart.items = <list>; cart.save(): the whole array is set and __v is
\* incremented.
savedItems_kept(cart, items) == [cart EXCEPT !.v = @ + 1]
savedItems(cart, items) == [cart EXCEPT !.items = items, !.v = @ + 1]

emptyCart_absent(userId) == userId \notin DOMAIN carts

\* !cart || cart.items.length === 0, on the result of Cart.findOne
emptyCart(userId) ==
  \/ userId \notin DOMAIN carts
  \/ Len(carts[userId].items) = 0

\* The request arrives, passes userAuth, and User.findById resolves.
FromCartUser(f, token) ==
  /\ UNCHANGED side
  /\ fromcart[f].pc = "idle"
  /\ emitted' = NoEmit
  /\ UNCHANGED <<orders, hist, menu, clock, post, patch, get, cycles, users, carts>>
  /\ IF userAuth(token) # "next"
     THEN /\ res' = [op |-> "FROMCART", code |-> (IF token \in {"none", "invalid"}
                                                  THEN 401 ELSE 403),
                     type |-> userAuth(token)]
          /\ UNCHANGED <<fromcart, ncalls>>
     ELSE IF decoded(token).id \notin DOMAIN users
     THEN /\ res' = [op |-> "FROMCART", code |-> 404, type |-> "User not found"]
          /\ UNCHANGED <<fromcart, ncalls>>
     ELSE /\ ncalls < MaxCalls
          /\ ncalls' = ncalls + 1
          /\ res' = NoRes
          /\ fromcart' = [fromcart EXCEPT ![f] =
                            [pc |-> "cart", call |-> ncalls + 1,
                             user |-> [id |-> decoded(token).id,
                                       name |-> users[decoded(token).id].name]]]

\* Cart.findOne resolves.  The loop body runs once per cart item, so a cart
\* without items that passed the check would go straight to Order.create.
FromCartCart(f) ==
  /\ UNCHANGED side
  /\ fromcart[f].pc = "cart"
  /\ emitted' = NoEmit
  /\ UNCHANGED <<orders, hist, menu, clock, ncalls, post, patch, get, cycles, users,
                 carts>>
  /\ IF emptyCart(fromcart[f].user.id)
     THEN /\ res' = [op |-> "FROMCART", code |-> 400, type |-> "Your cart is empty"]
          /\ fromcart' = [fromcart EXCEPT ![f] = IdleFrom]
     ELSE LET cart == carts[fromcart[f].user.id]
          IN /\ res' = NoRes
             /\ fromcart' = [fromcart EXCEPT ![f] =
                   IF Len(cart.items) = 0
                   THEN [pc |-> "insert", call |-> fromcart[f].call,
                         user |-> fromcart[f].user, cart |-> cart,
                         doc |-> [status |-> "pending", createdAt |-> clock,
                                  customerName |-> fromcart[f].user.name,
                                  userId |-> fromcart[f].user.id,
                                  items |-> <<>>, totalAmount |-> 0]]
                   ELSE [pc |-> "lookup", call |-> fromcart[f].call,
                         user |-> fromcart[f].user, cart |-> cart,
                         i |-> 1, orderItems |-> <<>>, totalAmount |-> 0]]

\* One MenuItem.findById of the loop resolves.  After the last item the
\* handler calls Order.create, which stamps createdAt with the clock.
FromCartLookup(f) ==
  /\ UNCHANGED side
  /\ fromcart[f].pc = "lookup"
  /\ emitted' = NoEmit
  /\ UNCHANGED <<orders, hist, menu, clock, ncalls, post, patch, get, cycles, users,
                 carts>>
  /\ LET cartItem == fromcart[f].cart.items[fromcart[f].i]
     IN IF itemStatus(cartItem.menuItemId) = "not found"
        THEN /\ res' = [op |-> "FROMCART", code |-> 400, type |-> "no longer exists"]
             /\ fromcart' = [fromcart EXCEPT ![f] = IdleFrom]
        ELSE LET menuItem == menu[cartItem.menuItemId]
             IN IF itemStatus(cartItem.menuItemId) = "unavailable"
                THEN /\ res' = [op |-> "FROMCART", code |-> 400,
                                type |-> "currently unavailable"]
                     /\ fromcart' = [fromcart EXCEPT ![f] = IdleFrom]
                ELSE LET pushed == Append(fromcart[f].orderItems,
                                     [menuItemId |-> cartItem.menuItemId,
                                      name |-> menuItem.name,
                                      quantity |-> cartItem.quantity,
                                      price |-> menuItem.price])
                     IN /\ res' = NoRes
                        /\ fromcart' = [fromcart EXCEPT ![f] =
                             IF fromcart[f].i < Len(fromcart[f].cart.items)
                             THEN [@ EXCEPT !.i = @ + 1, !.orderItems = pushed,
                                            !.totalAmount = @ + lineTotal(menuItem, cartItem)]
                             ELSE [pc |-> "insert", call |-> fromcart[f].call,
                                   user |-> fromcart[f].user,
                                   cart |-> fromcart[f].cart,
                                   doc |-> [status |-> "pending",
                                            createdAt |-> clock,
                                            customerName |-> fromcart[f].user.name,
                                            userId |-> fromcart[f].user.id,
                                            items |-> pushed,
                                            totalAmount |-> fromcart[f].totalAmount
                                                            + lineTotal(menuItem, cartItem)]]]

\* The insert of Order.create reaches the repository.
FromCartInsert(f) ==
  /\ UNCHANGED side
  /\ fromcart[f].pc = "insert"
  /\ orders' = Append(orders, fromcart[f].doc)
  /\ hist' = Append(hist, [call |-> fromcart[f].call, createdPos |-> 0])
  /\ fromcart' = [fromcart EXCEPT ![f] =
                    [pc |-> "count", id |-> Len(orders) + 1, doc |-> fromcart[f].doc,
                     user |-> fromcart[f].user, cart |-> fromcart[f].cart]]
  /\ res' = NoRes
  /\ emitted' = NoEmit
  /\ UNCHANGED <<menu, clock, ncalls, post, patch, get, cycles, users, carts>>

\* The count of order.getQueuePosition() resolves; cart.items = [] and
\* cart.save() is issued.
FromCartCount(f) ==
  /\ UNCHANGED side
  /\ fromcart[f].pc = "count"
  /\ fromcart' = [fromcart EXCEPT ![f] =
                    [pc |-> "clear", id |-> fromcart[f].id, doc |-> fromcart[f].doc,
                     user |-> fromcart[f].user, cart |-> fromcart[f].cart,
                     queuePosition |-> getQueuePosition(fromcart[f].doc, orders)]]
  /\ res' = NoRes
  /\ emitted' = NoEmit
  /\ UNCHANGED <<orders, hist, menu, clock, ncalls, post, patch, get, cycles, users,
                 carts>>

\* cart.save() reaches the repository.  Replacing the items array makes the
\* update conditional on the version __v that was read and increments it.
\* When it applies, emitQueueUpdate() is started and the order is returned
\* with its position; when it does not, save throws a VersionError.
FromCartClear(f) ==
  /\ fromcart[f].pc = "clear"
  /\ emitted' = NoEmit
  /\ UNCHANGED <<orders, menu, clock, ncalls, users>>
  /\ LET userId == fromcart[f].user.id
     IN IF /\ userId \in DOMAIN carts
           /\ carts[userId].id = fromcart[f].cart.id
           /\ carts[userId].v = fromcart[f].cart.v
        THEN /\ FreeCycles # {}
             /\ carts' = [carts EXCEPT ![userId] = savedItems(carts[userId], <<>>)]
             /\ cycles' = StartCycle
             /\ res' = [op |-> "FROMCART", code |-> 201, type |-> "created",
                        id |-> fromcart[f].id, order |-> fromcart[f].doc,
                        queuePosition |-> <<fromcart[f].queuePosition>>]
             /\ hist' = [hist EXCEPT ![fromcart[f].id].createdPos =
                                       fromcart[f].queuePosition]
             /\ fromcart' = [fromcart EXCEPT ![f] = IdleFrom]
             /\ UNCHANGED <<post, patch, get, side>>
        ELSE \E outcome \in ThrowOutcomes :
               /\ UNCHANGED <<carts, hist>>
               /\ res' = IF outcome = "500"
                         THEN [op |-> "FROMCART", code |-> 500,
                               type |-> "Internal server error"]
                         ELSE NoRes
               /\ IF outcome = "exit"
                  THEN /\ post' = Idled(post)
                       /\ patch' = Idled(patch)
                       /\ get' = Idled(get)
                       /\ cycles' = Idled(cycles)
                       /\ fromcart' = Idled(fromcart)
                       /\ side' = Idled(side)
                  ELSE /\ fromcart' = [fromcart EXCEPT ![f] = IdleFrom]
                       /\ UNCHANGED <<post, patch, get, cycles, side>>

\* --------------------------------------------------- GET /api/orders/:id
\* The route /:id is registered before /my, so it takes every GET with one
\* path segment that is not "history", the segment "my" included.  findById
\* resolves, or rejects when the segment is not an ObjectId; an order that is
\* not active is answered at once with queuePosition null (the empty
\* sequence here).  The segment is not empty: GET /api/orders/ is the list.
GetFind(g, id) ==
  /\ get[g].pc = "idle"
  /\ id # EmptyText
  /\ emitted' = NoEmit
  /\ UNCHANGED <<orders, hist, menu, clock, ncalls, users, carts>>
  /\ IF ~isObjectId(id)
     THEN \E outcome \in ThrowOutcomes : Rejected("GET", outcome)
     ELSE /\ UNCHANGED <<post, patch, cycles, fromcart, side>>
          /\ IF castObjectId(id) \notin OrderIds
             THEN /\ res' = [op |-> "GET", code |-> 404, type |-> "Order not found", id |-> castObjectId(id)]
                  /\ get' = get
             ELSE IF ~includes(<<"pending", "preparing">>, orders[castObjectId(id)].status)
             THEN /\ res' = [op |-> "GET", code |-> 200, type |-> "ok", id |-> castObjectId(id),
                             order |-> orders[castObjectId(id)], queuePosition |-> <<>>]
                  /\ get' = get
             ELSE /\ res' = NoRes
                  /\ get' = [get EXCEPT ![g] = [pc |-> "count", id |-> castObjectId(id), doc |-> orders[castObjectId(id)]]]

\* The count of order.getQueuePosition() resolves.
GetCount(g) ==
  /\ UNCHANGED side
  /\ get[g].pc = "count"
  /\ res' = [op |-> "GET", code |-> 200, type |-> "ok", id |-> get[g].id,
             order |-> get[g].doc,
             queuePosition |-> <<getQueuePosition(get[g].doc, orders)>>]
  /\ get' = [get EXCEPT ![g] = IdleGet]
  /\ emitted' = NoEmit
  /\ UNCHANGED <<orders, hist, menu, clock, ncalls, post, patch, cycles, users, carts,
                 fromcart>>

\* ------------------------------------------------------- GET /api/orders
\* The list of active orders, for any token that auth lets through: the one
\* query resolves and the documents are sent.
ListActive(token) ==
  /\ UNCHANGED side
  /\ emitted' = NoEmit
  /\ UNCHANGED <<orders, hist, menu, clock, ncalls, post, patch, get, cycles, users,
                 carts, fromcart>>
  /\ IF auth(token) # "next"
     THEN res' = [op |-> "LIST", code |-> 401, type |-> auth(token)]
     ELSE \E s \in findActiveSorted(orders) :
            res' = [op |-> "LIST", code |-> 200, type |-> "ok",
                    orders |-> [k \in DOMAIN s |-> Doc(orders, s[k])]]

\* ----------------------------------------------------- /api/menu (admin)
\* A request body is a record of the fields it carries.
has(body, field) == field \in DOMAIN body

CategoryEnum == <<"Main", "Snack", "Drink", "Beverage", "Dessert">>

\* The messages of the validators that fail, in the order of the chains.
MenuPostErrors(body) ==
  (IF has(body, "name") /\ body.name # "" THEN <<>> ELSE <<"Name is required">>)
  \o (IF has(body, "price") /\ body.price >= 0 THEN <<>>
      ELSE <<"Price must be a non-negative number">>)
  \o (IF has(body, "category") /\ includes(CategoryEnum, body.category) THEN <<>>
      ELSE <<"Invalid category">>)

MenuPutErrors(body) ==
  (IF has(body, "price") /\ body.price < 0
   THEN <<"Price must be a non-negative number">> ELSE <<>>)
  \o (IF has(body, "category") /\ ~includes(CategoryEnum, body.category)
      THEN <<"Invalid category">> ELSE <<>>)

\* The catalog ids that a list of items, and a request in flight, refer to.
RefIds(items) == {castObjectId(items[k].menuItemId) : k \in DOMAIN items}

SlotRefs(r) ==
  (IF has(r, "items") THEN RefIds(r.items) ELSE {})
  \cup (IF has(r, "orderItems") THEN RefIds(r.orderItems) ELSE {})
  \cup (IF has(r, "doc") THEN RefIds(r.doc.items) ELSE {})
  \cup (IF has(r, "cart") THEN RefIds(r.cart.items) ELSE {})
  \cup (IF has(r, "item") THEN RefIds(<<r.item>>) ELSE {})

\* The _id of a new catalog item is a new ObjectId: one that no catalog item
\* has and that nothing refers to.  KnownIds are the ids that requests can
\* name from the start: those of the two catalog items of the start and
\* that of an item deleted before.
KnownIds == {1, 2, 3}

MenuIdsInUse ==
  DOMAIN menu \cup KnownIds
  \cup UNION {RefIds(carts[u].items) : u \in DOMAIN carts}
  \cup UNION {RefIds(orders[i].items) : i \in DOMAIN orders}
  \cup UNION {SlotRefs(post[c]) : c \in DOMAIN post}
  \cup UNION {SlotRefs(fromcart[f]) : f \in DOMAIN fromcart}
  \cup UNION {SlotRefs(side[s]) : s \in DOMAIN side}

newMenuId == CHOOSE n \in 1..(MaxMenu + 1) : (1..n) \ MenuIdsInUse = {n}

\* POST /api/menu: the request passes auth, requireRole and the validators,
\* and MenuItem.create inserts the item.
MenuPost(token, body) ==
  /\ emitted' = NoEmit
  /\ UNCHANGED <<orders, hist, clock, ncalls, post, patch, get, cycles, users, carts,
                 fromcart, side>>
  /\ IF auth(token) # "next"
     THEN /\ res' = [op |-> "MENU", code |-> 401, type |-> auth(token)]
          /\ menu' = menu
     ELSE IF requireRole({"admin"}, token) # "next"
     THEN /\ res' = [op |-> "MENU", code |-> 403, type |-> "403 Forbidden"]
          /\ menu' = menu
     ELSE IF MenuPostErrors(body) # <<>>
     THEN /\ res' = [op |-> "MENU", code |-> 400, type |-> "validation",
                     errors |-> MenuPostErrors(body)]
          /\ menu' = menu
     ELSE /\ newMenuId <= MaxMenu
          /\ menu' = [m \in DOMAIN menu \cup {newMenuId} |->
                        IF m = newMenuId
                        THEN [name |-> body.name, price |-> body.price,
                              category |-> body.category,
                              isAvailable |-> IF has(body, "isAvailable")
                                              THEN body.isAvailable ELSE TRUE]
                        ELSE menu[m]]
          /\ res' = [op |-> "MENU", code |-> 201, type |-> "created",
                     id |-> newMenuId]

\* The fields of a catalog item that PUT /api/menu/:id lets through.
allowed == {"name", "price", "category", "isAvailable"}

\* PUT /api/menu/:id: the request passes auth, requireRole and the
\* validators, and findByIdAndUpdate sets the allowed fields of `updates`.
\* It rejects when the id is no ObjectId and when the required name is set
\* to the empty text (runValidators).
MenuPut(token, id, updates) ==
  /\ emitted' = NoEmit
  /\ UNCHANGED <<orders, hist, clock, ncalls, users, carts>>
  /\ IF /\ id # EmptyText
        /\ auth(token) = "next" /\ requireRole({"admin"}, token) = "next"
        /\ MenuPutErrors(updates) = <<>>
        /\ ~isObjectId(id) \/ (has(updates, "name") /\ updates.name = "")
     THEN /\ menu' = menu
          /\ \E outcome \in ThrowOutcomes : Rejected("MENU", outcome)
     ELSE /\ UNCHANGED <<post, patch, get, cycles, fromcart, side>>
          /\ IF id = EmptyText
             THEN /\ res' = RouteNotFound("MENU")
                  /\ menu' = menu
             ELSE IF auth(token) # "next"
             THEN /\ res' = [op |-> "MENU", code |-> 401, type |-> auth(token)]
                  /\ menu' = menu
             ELSE IF requireRole({"admin"}, token) # "next"
             THEN /\ res' = [op |-> "MENU", code |-> 403, type |-> "403 Forbidden"]
                  /\ menu' = menu
             ELSE IF MenuPutErrors(updates) # <<>>
             THEN /\ res' = [op |-> "MENU", code |-> 400, type |-> "validation",
                             errors |-> MenuPutErrors(updates)]
                  /\ menu' = menu
             ELSE IF castObjectId(id) \notin DOMAIN menu
             THEN /\ res' = [op |-> "MENU", code |-> 404,
                             type |-> "Menu item not found"]
                  /\ menu' = menu
             ELSE /\ menu' = [menu EXCEPT ![castObjectId(id)] =
                                [k \in DOMAIN @ |->
                                   IF k \in DOMAIN updates \cap allowed
                                   THEN updates[k] ELSE @[k]]]
                  /\ res' = [op |-> "MENU", code |-> 200, type |-> "updated",
                             id |-> castObjectId(id)]

\* DELETE /api/menu/:id: findByIdAndDelete, which rejects when the id is no
\* ObjectId.
MenuDelete(token, id) ==
  /\ emitted' = NoEmit
  /\ UNCHANGED <<orders, hist, clock, ncalls, users, carts>>
  /\ IF /\ id # EmptyText
        /\ auth(token) = "next" /\ requireRole({"admin"}, token) = "next"
        /\ ~isObjectId(id)
     THEN /\ menu' = menu
          /\ \E outcome \in ThrowOutcomes : Rejected("MENU", outcome)
     ELSE /\ UNCHANGED <<post, patch, get, cycles, fromcart, side>>
          /\ IF id = EmptyText
             THEN /\ res' = RouteNotFound("MENU")
                  /\ menu' = menu
             ELSE IF auth(token) # "next"
             THEN /\ res' = [op |-> "MENU", code |-> 401, type |-> auth(token)]
                  /\ menu' = menu
             ELSE IF requireRole({"admin"}, token) # "next"
             THEN /\ res' = [op |-> "MENU", code |-> 403, type |-> "403 Forbidden"]
                  /\ menu' = menu
             ELSE IF castObjectId(id) \notin DOMAIN menu
             THEN /\ res' = [op |-> "MENU", code |-> 404,
                             type |-> "Menu item not found"]
                  /\ menu' = menu
             ELSE /\ menu' = [m \in DOMAIN menu \ {castObjectId(id)} |-> menu[m]]
                  /\ res' = [op |-> "MENU", code |-> 200, type |-> "deleted",
                             id |-> castObjectId(id)]

\* ------------------------------------------- the cart and account routes
\* The status userAuth answers with when it does not call next().
statusOf(token) == IF token \in {"none", "invalid"} THEN 401 ELSE 403

\* The handler in slot s throws at a save or a create.
SideThrows(s, op, outcome) ==
  /\ res' = IF outcome = "500"
            THEN [op |-> op, code |-> 500, type |-> "Internal server error"]
            ELSE NoRes
  /\ IF outcome = "exit"
     THEN /\ post' = Idled(post)
          /\ patch' = Idled(patch)
          /\ get' = Idled(get)
          /\ cycles' = Idled(cycles)
          /\ fromcart' = Idled(fromcart)
          /\ side' = Idled(side)
     ELSE /\ side' = [side EXCEPT ![s] = [pc |-> "idle"]]
          /\ UNCHANGED <<post, patch, get, cycles, fromcart>>

\* A phone is a text: ValidPhones stand for texts of ten digits, BadPhone
\* for a non-empty text of another form, EmptyText for the empty one.  A
\* password is given by its length, and a missing one fails as a short one.
BadPhone == 0
ValidPhones == {1, 2}

\* The messages of the validators of POST /api/users/register that fail.
RegisterErrors(body) ==
  (IF has(body, "name") /\ body.name # "" THEN <<>> ELSE <<"Name is required">>)
  \o (IF has(body, "phone") /\ body.phone # EmptyText THEN <<>>
      ELSE <<"Phone number is required">>)
  \o (IF has(body, "phone") /\ body.phone \in ValidPhones THEN <<>>
      ELSE <<"Phone must be a 10-digit number">>)
  \o (IF has(body, "password") /\ body.password >= 6 THEN <<>>
      ELSE <<"Password must be at least 6 characters">>)

phoneTaken(phone) == \E u \in DOMAIN users : users[u].phone = phone

\* The _id of a new user is a new ObjectId: one that no user has, that no
\* token carries and that no cart, order or request in flight refers to.
TokenIds == {decoded(token).id : token \in {"user", "gone"}}

UserIdsInUse ==
  DOMAIN users \cup DOMAIN carts \cup TokenIds
  \cup {orders[i].userId : i \in DOMAIN orders}
  \cup {side[s].userId : s \in {t \in DOMAIN side : has(side[t], "userId")}}
  \cup {fromcart[f].user.id : f \in {t \in DOMAIN fromcart : has(fromcart[t], "user")}}

newUserId == CHOOSE n \in 1..(MaxUsers + 1) : (1..n) \ UserIdsInUse = {n}

\* The registrations that have not inserted their user yet.
Registering == {s \in DOMAIN side : side[s].pc = "register:user"}

\* POST /api/users/register: the request passes the validators and
\* User.findOne({ phone }) resolves; then the password is hashed.
Register(s, body) ==
  /\ side[s].pc = "idle"
  /\ emitted' = NoEmit
  /\ UNCHANGED <<orders, hist, menu, clock, ncalls, post, patch, get, cycles, users,
                 carts, fromcart>>
  /\ IF RegisterErrors(body) # <<>>
     THEN /\ res' = [op |-> "USER", code |-> 400, type |-> "validation",
                     errors |-> RegisterErrors(body)]
          /\ side' = side
     ELSE IF phoneTaken(body.phone)
     THEN /\ res' = [op |-> "USER", code |-> 400,
                     type |-> "This phone number is already registered"]
          /\ side' = side
     ELSE /\ newUserId + Cardinality(Registering) <= MaxUsers
          /\ res' = NoRes
          /\ side' = [side EXCEPT ![s] =
                        [pc |-> "register:user", name |-> body.name,
                         phone |-> body.phone]]

\* The insert of User.create reaches the repository, where phone is unique:
\* it fails when the phone was registered in the meantime.
RegisterUser(s) ==
  /\ side[s].pc = "register:user"
  /\ emitted' = NoEmit
  /\ UNCHANGED <<orders, hist, menu, clock, ncalls, carts>>
  /\ IF phoneTaken(side[s].phone)
     THEN /\ users' = users
          /\ \E outcome \in ThrowOutcomes : SideThrows(s, "USER", outcome)
     ELSE /\ users' = [u \in DOMAIN users \cup {newUserId} |->
                         IF u = newUserId
                         THEN [name |-> side[s].name, phone |-> side[s].phone]
                         ELSE users[u]]
          /\ res' = NoRes
          /\ side' = [side EXCEPT ![s] =
                        [pc |-> "register:cart", userId |-> newUserId,
                         name |-> side[s].name, phone |-> side[s].phone]]
          /\ UNCHANGED <<post, patch, get, cycles, fromcart>>

\* The _id of a new cart: one that no stored cart and no cart document held
\* by a handler has.
CartIdsInUse ==
  {carts[u].id : u \in DOMAIN carts}
  \cup {side[s].cart.id : s \in {t \in DOMAIN side : "cart" \in DOMAIN side[t]}}
  \cup {fromcart[f].cart.id :
          f \in {t \in DOMAIN fromcart : "cart" \in DOMAIN fromcart[t]}}

newCartId ==
  CHOOSE n \in 1..(Cardinality(CartIdsInUse) + 1) : n \notin CartIdsInUse

\* The insert of Cart.create({ userId: user._id, items: [] }) reaches the
\* repository, and the registration is answered with the token and the user.
RegisterCart(s) ==
  /\ side[s].pc = "register:cart"
  /\ emitted' = NoEmit
  /\ UNCHANGED <<orders, hist, menu, clock, ncalls, users>>
  /\ IF side[s].userId \in DOMAIN carts
     THEN /\ carts' = carts
          /\ \E outcome \in ThrowOutcomes : SideThrows(s, "USER", outcome)
     ELSE /\ carts' = [u \in DOMAIN carts \cup {side[s].userId} |->
                         IF u = side[s].userId
                         THEN [items |-> <<>>, v |-> 0, id |-> newCartId]
                         ELSE carts[u]]
          /\ res' = [op |-> "USER", code |-> 201, type |-> "registered",
                     user |-> [id |-> side[s].userId, name |-> side[s].name,
                               phone |-> side[s].phone]]
          /\ side' = [side EXCEPT ![s] = [pc |-> "idle"]]
          /\ UNCHANGED <<post, patch, get, cycles, fromcart>>

\* PUT /api/users/me, of a request that carries no newPassword: the request
\* passes userAuth and the validator, and User.findById resolves.
MePut(s, token, body) ==
  /\ side[s].pc = "idle"
  /\ emitted' = NoEmit
  /\ UNCHANGED <<orders, hist, menu, clock, ncalls, post, patch, get, cycles, users,
                 carts, fromcart>>
  /\ IF userAuth(token) # "next"
     THEN /\ res' = [op |-> "ME", code |-> statusOf(token),
                     type |-> userAuth(token)]
          /\ side' = side
     ELSE IF has(body, "name") /\ body.name = ""
     THEN /\ res' = [op |-> "ME", code |-> 400, type |-> "validation",
                     errors |-> <<"Name cannot be empty">>]
          /\ side' = side
     ELSE IF decoded(token).id \notin DOMAIN users
     THEN /\ res' = [op |-> "ME", code |-> 404, type |-> "User not found"]
          /\ side' = side
     ELSE LET user == users[decoded(token).id]
          IN /\ res' = NoRes
             /\ side' = [side EXCEPT ![s] =
                  [pc |-> "me:save", userId |-> decoded(token).id,
                   modified |-> has(body, "name") /\ body.name # user.name,
                   user |-> IF has(body, "name") THEN [user EXCEPT !.name = body.name]
                            ELSE user]]

\* user.save() reaches the repository: an update of the name of the document
\* with the user's _id, which throws when it matches none.  Of a document
\* that was not modified nothing is written, and whether save() then checks
\* that the document still exists depends on the version of the library.
MePutSave(s) ==
  /\ side[s].pc = "me:save"
  /\ emitted' = NoEmit
  /\ UNCHANGED <<orders, hist, menu, clock, ncalls, carts>>
  /\ \/ /\ side[s].userId \in DOMAIN users \/ ~side[s].modified
        /\ users' = IF side[s].modified
                    THEN [users EXCEPT ![side[s].userId].name = side[s].user.name]
                    ELSE users
        /\ res' = [op |-> "ME", code |-> 200, type |-> "user",
                   user |-> [id |-> side[s].userId, name |-> side[s].user.name,
                             phone |-> side[s].user.phone]]
        /\ side' = [side EXCEPT ![s] = [pc |-> "idle"]]
        /\ UNCHANGED <<post, patch, get, cycles, fromcart>>
     \/ /\ side[s].userId \notin DOMAIN users
        /\ users' = users
        /\ \E outcome \in ThrowOutcomes : SideThrows(s, "ME", outcome)

\* DELETE /api/users/me: the request passes userAuth and
\* User.findByIdAndDelete resolves, whether or not it found the user.
MeDeleteUser(s, token) ==
  /\ side[s].pc = "idle"
  /\ emitted' = NoEmit
  /\ UNCHANGED <<orders, hist, menu, clock, ncalls, post, patch, get, cycles, carts,
                 fromcart>>
  /\ IF userAuth(token) # "next"
     THEN /\ res' = [op |-> "ME", code |-> statusOf(token),
                     type |-> userAuth(token)]
          /\ UNCHANGED <<users, side>>
     ELSE /\ users' = [u \in DOMAIN users \ {decoded(token).id} |-> users[u]]
          /\ side' = [side EXCEPT ![s] = [pc |-> "me:cart",
                                          userId |-> decoded(token).id]]
          /\ res' = NoRes

\* The same with the customer's orders deleted as well, which the code
\* does not do.
MeDeleteCart_cascade(s) ==
  /\ side[s].pc = "me:cart"
  /\ carts' = [u \in DOMAIN carts \ {side[s].userId} |-> carts[u]]
  /\ orders' = SelectSeq(orders, LAMBDA o : o.userId # side[s].userId)
  /\ res' = [op |-> "ME", code |-> 200, type |-> "Account deleted"]
  /\ side' = [side EXCEPT ![s] = [pc |-> "idle"]]
  /\ emitted' = NoEmit
  /\ UNCHANGED <<hist, menu, clock, ncalls, post, patch, get, cycles, users,
                 fromcart>>

\* Cart.findOneAndDelete resolves and the deletion is answered.
MeDeleteCart(s) ==
  /\ side[s].pc = "me:cart"
  /\ carts' = [u \in DOMAIN carts \ {side[s].userId} |-> carts[u]]
  /\ res' = [op |-> "ME", code |-> 200, type |-> "Account deleted"]
  /\ side' = [side EXCEPT ![s] = [pc |-> "idle"]]
  /\ emitted' = NoEmit
  /\ UNCHANGED <<orders, hist, menu, clock, ncalls, post, patch, get, cycles, users,
                 fromcart>>

\* The number of units of a list of items.
RECURSIVE itemCount(_)
itemCount(items) ==
  IF Len(items) = 0 THEN 0 ELSE Head(items).quantity + itemCount(Tail(items))

\* The handler calls buildCartResponse(cart) and awaits it: the loop asks for
\* the catalog entry of the first item; of a cart without items the totals
\* are answered at once.
Answering(s, cart) ==
  IF cart.items = <<>>
  THEN /\ res' = [op |-> "CART", code |-> 200, type |-> "cart",
                  cart |-> [items |-> <<>>, grandTotal |-> 0, itemCount |-> 0]]
       /\ side' = [side EXCEPT ![s] = [pc |-> "idle"]]
  ELSE /\ res' = NoRes
       /\ side' = [side EXCEPT ![s] =
                     [pc |-> "build", cart |-> cart, i |-> 1, populated |-> <<>>,
                      grandTotal |-> 0, itemCount |-> 0]]

\* buildCartResponse: one MenuItem.findById of the loop resolves.  An item
\* whose catalog entry is gone is skipped; of the others the line total is
\* added at the price just read.  After the last item the handler answers
\* with the items kept (catalog reference and quantity) and the totals;
\* prices are whole numbers, which parseFloat(toFixed(2)) leaves as they are.
buildCartResponse(s) ==
  /\ side[s].pc = "build"
  /\ emitted' = NoEmit
  /\ UNCHANGED <<orders, hist, menu, clock, ncalls, post, patch, get, cycles, users,
                 carts, fromcart>>
  /\ LET item == side[s].cart.items[side[s].i]
         skip == item.menuItemId \notin DOMAIN menu
         populated == IF skip THEN side[s].populated
                      ELSE Append(side[s].populated, item)
         total == IF skip THEN side[s].grandTotal
                  ELSE side[s].grandTotal + lineTotal(menu[item.menuItemId], item)
         count == IF skip THEN side[s].itemCount
                  ELSE side[s].itemCount + item.quantity
     IN IF side[s].i < Len(side[s].cart.items)
        THEN /\ res' = NoRes
             /\ side' = [side EXCEPT ![s] =
                           [@ EXCEPT !.i = @ + 1, !.populated = populated,
                                     !.grandTotal = total, !.itemCount = count]]
        ELSE /\ res' = [op |-> "CART", code |-> 200, type |-> "cart",
                        cart |-> [items |-> populated, grandTotal |-> total,
                                  itemCount |-> count]]
             /\ side' = [side EXCEPT ![s] = [pc |-> "idle"]]

\* GET /api/cart: the request passes userAuth and Cart.findOne resolves.
CartGet(s, token) ==
  /\ side[s].pc = "idle"
  /\ emitted' = NoEmit
  /\ UNCHANGED <<orders, hist, menu, clock, ncalls, post, patch, get, cycles, users,
                 carts, fromcart>>
  /\ IF userAuth(token) # "next"
     THEN /\ res' = [op |-> "CART", code |-> statusOf(token),
                     type |-> userAuth(token)]
          /\ side' = side
     ELSE IF decoded(token).id \notin DOMAIN carts
     THEN /\ res' = [op |-> "CART", code |-> 404, type |-> "Cart not found"]
          /\ side' = side
     ELSE Answering(s, carts[decoded(token).id])

\* The cart of the token's customer can take a request that adds `units`.
CartOpen(token, units) ==
  (userAuth(token) = "next" /\ decoded(token).id \in DOMAIN carts)
    => /\ carts[decoded(token).id].v < MaxVersion
       /\ itemCount(carts[decoded(token).id].items) + units <= MaxUnits

\* The messages of the validators of POST /api/cart/items that fail.
CartAddErrors(menuItemId, quantity) ==
  (IF menuItemId = EmptyText THEN <<"menuItemId is required">> ELSE <<>>)
  \o (IF quantity < 1 THEN <<"Quantity must be at least 1">> ELSE <<>>)

\* POST /api/cart/items: the request passes userAuth and the validators, and
\* MenuItem.findById resolves, or rejects for a menuItemId that is no ObjectId.
CartAdd(s, token, menuItemId, quantity) ==
  /\ side[s].pc = "idle"
  /\ CartOpen(token, quantity)
  /\ emitted' = NoEmit
  /\ UNCHANGED <<orders, hist, menu, clock, ncalls, users, carts>>
  /\ IF /\ userAuth(token) = "next" /\ CartAddErrors(menuItemId, quantity) = <<>>
        /\ ~isObjectId(menuItemId)
     THEN \E outcome \in ThrowOutcomes : Rejected("CART", outcome)
     ELSE /\ UNCHANGED <<post, patch, get, cycles, fromcart>>
          /\ IF userAuth(token) # "next"
             THEN /\ res' = [op |-> "CART", code |-> statusOf(token),
                             type |-> userAuth(token)]
                  /\ side' = side
             ELSE IF CartAddErrors(menuItemId, quantity) # <<>>
             THEN /\ res' = [op |-> "CART", code |-> 400, type |-> "validation",
                             errors |-> CartAddErrors(menuItemId, quantity)]
                  /\ side' = side
             ELSE IF itemStatus(castObjectId(menuItemId)) = "not found"
             THEN /\ res' = [op |-> "CART", code |-> 404, type |-> "Menu item not found"]
                  /\ side' = side
             ELSE IF itemStatus(castObjectId(menuItemId)) = "unavailable"
             THEN /\ res' = [op |-> "CART", code |-> 400,
                             type |-> "currently unavailable"]
                  /\ side' = side
             ELSE /\ res' = NoRes
                  /\ side' = [side EXCEPT ![s] =
                                [pc |-> "add:find", userId |-> decoded(token).id,
                                 item |-> Item(menuItemId, quantity)]]

\* ObjectId.toString(): the text of the id in lower-case digits, which is
\* what the number of the id stands for.
toString(id) == id

\* The place in the cart's items of the first one whose id, as a text, is the
\* text of the request; 0 when there is none.
existing(items, menuItemId) ==
  IF \E k \in DOMAIN items : toString(items[k].menuItemId) = menuItemId
  THEN CHOOSE k \in DOMAIN items :
         /\ toString(items[k].menuItemId) = menuItemId
         /\ \A j \in 1..(k - 1) : toString(items[j].menuItemId) # menuItemId
  ELSE 0

\* The item as the cart's array stores it: the text is cast to an ObjectId.
pushed(item) == Item(castObjectId(item.menuItemId), item.quantity)

\* The change add-to-cart makes to the cart it holds: the quantity of the
\* existing item is raised, or the item is pushed.
added(cart, item) ==
  LET k == existing(cart.items, item.menuItemId)
  IN IF k # 0
     THEN [cart EXCEPT !.items[k].quantity = @ + item.quantity]
     ELSE [cart EXCEPT !.items = Append(@, pushed(item))]

\* Cart.findOne resolves: to the cart, which is changed and saved, or to
\* null, and then Cart.create is called.
CartAddFind(s) ==
  /\ side[s].pc = "add:find"
  /\ res' = NoRes
  /\ emitted' = NoEmit
  /\ UNCHANGED <<orders, hist, menu, clock, ncalls, post, patch, get, cycles, users,
                 carts, fromcart>>
  /\ side' = [side EXCEPT ![s] =
       IF side[s].userId \notin DOMAIN carts
       THEN [pc |-> "add:create", userId |-> side[s].userId, item |-> side[s].item]
       ELSE [pc |-> "add:save", userId |-> side[s].userId, item |-> side[s].item,
             k |-> existing(carts[side[s].userId].items, side[s].item.menuItemId),
             cart |-> added(carts[side[s].userId], side[s].item)]]

\* The insert of Cart.create reaches the repository, where userId is unique:
\* it fails when the customer has a cart by now.
CartAddCreate(s) ==
  /\ side[s].pc = "add:create"
  /\ emitted' = NoEmit
  /\ UNCHANGED <<orders, hist, menu, clock, ncalls, users>>
  /\ IF side[s].userId \in DOMAIN carts
     THEN /\ carts' = carts
          /\ \E outcome \in ThrowOutcomes : SideThrows(s, "CART", outcome)
     ELSE /\ carts' = [u \in DOMAIN carts \cup {side[s].userId} |->
                         IF u = side[s].userId
                         THEN [items |-> <<>>, v |-> 0, id |-> newCartId]
                         ELSE carts[u]]
          /\ res' = NoRes
          /\ side' = [side EXCEPT ![s] =
                        [pc |-> "add:save", userId |-> side[s].userId,
                         item |-> side[s].item, k |-> 0,
                         cart |-> added([items |-> <<>>, v |-> 0, id |-> newCartId],
                                        side[s].item)]]
          /\ UNCHANGED <<post, patch, get, cycles, fromcart>>

\* cart.save() reaches the repository: an update of the document with the
\* cart's _id.  A pushed item is appended to the stored array and __v is
\* incremented, with no condition on __v; a changed quantity is set at its
\* index on condition that __v is the one read, and __v stays.  The save
\* throws when its update matches no document.  After the save the handler
\* builds its answer.
CartAddSave(s) ==
  /\ side[s].pc = "add:save"
  /\ emitted' = NoEmit
  /\ UNCHANGED <<orders, hist, menu, clock, ncalls, users>>
  /\ LET userId == side[s].userId
         k == side[s].k
     IN IF /\ userId \in DOMAIN carts
           /\ carts[userId].id = side[s].cart.id
           /\ k # 0 => carts[userId].v = side[s].cart.v
        THEN /\ carts' = [carts EXCEPT ![userId] =
                            IF k = 0
                            THEN [@ EXCEPT !.items = Append(@, pushed(side[s].item)),
                                           !.v = @ + 1]
                            ELSE [@ EXCEPT !.items[k].quantity =
                                             side[s].cart.items[k].quantity]]
             /\ Answering(s, side[s].cart)
             /\ UNCHANGED <<post, patch, get, cycles, fromcart>>
        ELSE /\ carts' = carts
             /\ \E outcome \in ThrowOutcomes : SideThrows(s, "CART", outcome)

\* Another request that is about to write the customer's cart is in flight.
WritingCart(s, userId) ==
  \E t \in DOMAIN side \ {s} :
    /\ side[t].pc \in {"add:find", "add:create", "add:save", "put:save",
                       "remove:save", "clear:save"}
    /\ side[t].userId = userId

\* PUT /api/cart/items/:menuItemId: the request passes userAuth and the
\* validator, Cart.findOne resolves and the quantity of the item is set.
\* The units of a cart stay bounded: a request that lowers a quantity is
\* taken up when no other request is about to write the cart.
CartPut(s, token, menuItemId, quantity) ==
  /\ side[s].pc = "idle"
  /\ emitted' = NoEmit
  /\ UNCHANGED <<orders, hist, menu, clock, ncalls, post, patch, get, cycles, users,
                 carts, fromcart>>
  /\ IF menuItemId = EmptyText
     THEN /\ res' = RouteNotFound("CART")
          /\ side' = side
     ELSE IF userAuth(token) # "next"
     THEN /\ res' = [op |-> "CART", code |-> statusOf(token),
                     type |-> userAuth(token)]
          /\ side' = side
     ELSE IF quantity < 1
     THEN /\ res' = [op |-> "CART", code |-> 400, type |-> "validation",
                     errors |-> <<"Quantity must be at least 1">>]
          /\ side' = side
     ELSE IF decoded(token).id \notin DOMAIN carts
     THEN /\ res' = [op |-> "CART", code |-> 404, type |-> "Cart not found"]
          /\ side' = side
     ELSE LET cart == carts[decoded(token).id]
              k == existing(cart.items, menuItemId)
          IN IF k = 0
             THEN /\ res' = [op |-> "CART", code |-> 404,
                             type |-> "Item not found in cart. Add it first"]
                  /\ side' = side
             ELSE /\ itemCount(cart.items) - cart.items[k].quantity + quantity
                       <= MaxUnits
                  /\ quantity < cart.items[k].quantity
                       => ~WritingCart(s, decoded(token).id)
                  /\ res' = NoRes
                  /\ side' = [side EXCEPT ![s] =
                       [pc |-> "put:save", userId |-> decoded(token).id, k |-> k,
                        modified |-> cart.items[k].quantity # quantity,
                        cart |-> [cart EXCEPT !.items[k].quantity = quantity]]]

\* The document with the cart's _id is in the repository.
stored(cart, userId) == userId \in DOMAIN carts /\ carts[userId].id = cart.id

\* cart.save() reaches the repository: the quantity is set at its index on
\* condition that __v is the one read.  Of a quantity that was not changed
\* nothing is written, and whether save() then checks that the document
\* still exists depends on the version of the library.
CartPutSave(s) ==
  /\ side[s].pc = "put:save"
  /\ emitted' = NoEmit
  /\ UNCHANGED <<orders, hist, menu, clock, ncalls, users>>
  /\ LET userId == side[s].userId
         cart == side[s].cart
         k == side[s].k
     IN \/ /\ IF side[s].modified
              THEN stored(cart, userId) /\ carts[userId].v = cart.v
              ELSE TRUE
           /\ carts' = IF side[s].modified
                       THEN [carts EXCEPT ![userId].items[k].quantity =
                                            cart.items[k].quantity]
                       ELSE carts
           /\ Answering(s, cart)
           /\ UNCHANGED <<post, patch, get, cycles, fromcart>>
        \/ /\ IF side[s].modified
              THEN ~(stored(cart, userId) /\ carts[userId].v = cart.v)
              ELSE ~stored(cart, userId)
           /\ carts' = carts
           /\ \E outcome \in ThrowOutcomes : SideThrows(s, "CART", outcome)

\* The items of the cart but those whose id, as a text, is the text of the
\* request.
filtered(items, menuItemId) ==
  SelectSeq(items, LAMBDA i : toString(i.menuItemId) # menuItemId)

\* DELETE /api/cart/items/:menuItemId: the request passes userAuth,
\* Cart.findOne resolves and the item is filtered out of the cart's items.
CartRemove(s, token, menuItemId) ==
  /\ side[s].pc = "idle"
  /\ menuItemId # EmptyText => CartOpen(token, 0)
  /\ emitted' = NoEmit
  /\ UNCHANGED <<orders, hist, menu, clock, ncalls, post, patch, get, cycles, users,
                 carts, fromcart>>
  /\ IF menuItemId = EmptyText
     THEN /\ res' = RouteNotFound("CART")
          /\ side' = side
     ELSE IF userAuth(token) # "next"
     THEN /\ res' = [op |-> "CART", code |-> statusOf(token),
                     type |-> userAuth(token)]
          /\ side' = side
     ELSE IF decoded(token).id \notin DOMAIN carts
     THEN /\ res' = [op |-> "CART", code |-> 404, type |-> "Cart not found"]
          /\ side' = side
     ELSE LET cart == carts[decoded(token).id]
          IN IF Len(filtered(cart.items, menuItemId)) = Len(cart.items)
             THEN /\ res' = [op |-> "CART", code |-> 404,
                             type |-> "Item not found in cart"]
                  /\ side' = side
             ELSE /\ res' = NoRes
                  /\ side' = [side EXCEPT ![s] =
                       [pc |-> "remove:save", userId |-> decoded(token).id,
                        cart |-> [cart EXCEPT !.items =
                                    filtered(cart.items, menuItemId)]]]

\* cart.save() reaches the repository: the array is replaced on condition
\* that __v is the one read, and __v is incremented.
CartRemoveSave(s) ==
  /\ side[s].pc = "remove:save"
  /\ emitted' = NoEmit
  /\ UNCHANGED <<orders, hist, menu, clock, ncalls, users>>
  /\ LET userId == side[s].userId
         cart == side[s].cart
     IN IF stored(cart, userId) /\ carts[userId].v = cart.v
        THEN /\ carts' = [carts EXCEPT ![userId] = savedItems(@, cart.items)]
             /\ Answering(s, cart)
             /\ UNCHANGED <<post, patch, get, cycles, fromcart>>
        ELSE /\ carts' = carts
             /\ \E outcome \in ThrowOutcomes : SideThrows(s, "CART", outcome)

\* DELETE /api/cart: the request passes userAuth and Cart.findOne resolves.
CartClear(s, token) ==
  /\ side[s].pc = "idle"
  /\ CartOpen(token, 0)
  /\ emitted' = NoEmit
  /\ UNCHANGED <<orders, hist, menu, clock, ncalls, post, patch, get, cycles, users,
                 carts, fromcart>>
  /\ IF userAuth(token) # "next"
     THEN /\ res' = [op |-> "CART", code |-> statusOf(token),
                     type |-> userAuth(token)]
          /\ side' = side
     ELSE IF decoded(token).id \notin DOMAIN carts
     THEN /\ res' = [op |-> "CART", code |-> 404, type |-> "Cart not found"]
          /\ side' = side
     ELSE /\ res' = NoRes
          /\ side' = [side EXCEPT ![s] =
                        [pc |-> "clear:save", userId |-> decoded(token).id,
                         cart |-> carts[decoded(token).id]]]

\* cart.items = []; cart.save() reaches the repository.  An array that was
\* read empty is not modified by the assignment and nothing is written, and
\* whether save() then checks that the document still exists depends on the
\* version of the library; otherwise the update is conditional on the __v
\* read, as in from-cart.
CartClearSave(s) ==
  /\ side[s].pc = "clear:save"
  /\ emitted' = NoEmit
  /\ UNCHANGED <<orders, hist, menu, clock, ncalls, users>>
  /\ LET userId == side[s].userId
         cart == side[s].cart
         modified == cart.items # <<>>
     IN \/ /\ IF modified
              THEN stored(cart, userId) /\ carts[userId].v = cart.v
              ELSE TRUE
           /\ carts' = IF modified
                       THEN [carts EXCEPT ![userId] = savedItems(@, <<>>)]
                       ELSE carts
           /\ res' = [op |-> "CART", code |-> 200, type |-> "Cart cleared"]
           /\ side' = [side EXCEPT ![s] = [pc |-> "idle"]]
           /\ UNCHANGED <<post, patch, get, cycles, fromcart>>
        \/ /\ IF modified
              THEN ~(stored(cart, userId) /\ carts[userId].v = cart.v)
              ELSE ~stored(cart, userId)
           /\ carts' = carts
           /\ \E outcome \in ThrowOutcomes : SideThrows(s, "CART", outcome)

\* ------------------------------------------------------ failing publishes
\* The first n messages of a batch: what was sent when emit n + 1 threw.
Sent(msgs, n) == SubSeq(msgs, 1, n)

\* emitOrderReady throws at one of its two emits.  The exception leaves the
\* PATCH handler after the save: emitQueueUpdate() and res.json are not reached.
PatchReadyThrows(p, n, outcome) ==
  /\ patch[p].pc = "saved"
  /\ patch[p].status = "ready"
  /\ emitted' = IF n = 0 THEN NoEmit
                ELSE [by |-> "emitOrderReady", read |-> <<>>,
                      active |-> ActiveIds(orders),
                      msgs |-> Sent(emitOrderReadyMsgs(patch[p].id), n)]
  /\ res' = IF outcome = "500"
            THEN [op |-> "PATCH", code |-> 500, type |-> "Internal server error"]
            ELSE NoRes
  /\ IF outcome = "exit"
     THEN /\ post' = Idled(post)
          /\ patch' = Idled(patch)
          /\ get' = Idled(get)
          /\ cycles' = Idled(cycles)
          /\ fromcart' = Idled(fromcart)
          /\ side' = Idled(side)
     ELSE /\ patch' = [patch EXCEPT ![p] = IdlePatch]
          /\ UNCHANGED <<post, get, cycles, fromcart, side>>
  /\ UNCHANGED <<orders, hist, menu, clock, ncalls, users, carts>>

\* The find of emitQueueUpdate rejects (n = 0), or one of its emits throws
\* after n messages were sent.  Nobody awaits the promise of emitQueueUpdate:
\* the rejection is unhandled, and the process goes on or exits.
EmitThrows(y, n, outcome) ==
  /\ \/ cycles[y].pc = "find" /\ n = 0 /\ emitted' = NoEmit
     \/ /\ cycles[y].pc = "emit"
        /\ n < Len(emitQueueUpdateMsgs(cycles[y].activeOrders))
        /\ emitted' = IF n = 0 THEN NoEmit
                      ELSE [by |-> "emitQueueUpdate",
                            read |-> cycles[y].activeOrders,
                            active |-> cycles[y].active,
                            msgs |-> Sent(emitQueueUpdateMsgs(cycles[y].activeOrders), n)]
  /\ res' = NoRes
  /\ IF outcome = "exit"
     THEN /\ post' = Idled(post)
          /\ patch' = Idled(patch)
          /\ get' = Idled(get)
          /\ cycles' = Idled(cycles)
          /\ fromcart' = Idled(fromcart)
          /\ side' = Idled(side)
     ELSE /\ cycles' = [cycles EXCEPT ![y] = IdleCycle]
          /\ UNCHANGED <<post, patch, get, fromcart, side>>
  /\ UNCHANGED <<orders, hist, menu, clock, ncalls, users, carts>>

\* ------------------------------------------------------------ the system
\* Request inputs: a valid and an empty name; an empty list, one available
\* item, an available item followed by an unavailable one, an unknown item,
\* an item without a menuItemId, and an item whose menuItemId is no id, alone
\* and after an available item.
PostNames == {"", "Ann"}
PostItems ==
  {<<>>, <<Item(1, 1)>>, <<Item(1, 2), Item(2, 1)>>, <<Item(3, 1)>>,
   <<Item(EmptyText, 1)>>, <<Item(MySegment, 1)>>, <<Item(1, 1), Item(MySegment, 1)>>}
\* Transition requests: without a token, with a bad one, and with an admin
\* or a customer token for every order id (one of them unknown) and status.
PatchRequests ==
  {[token |-> "none", id |-> 1, status |-> "ready"],
   [token |-> "invalid", id |-> 1, status |-> "ready"]}
  \cup [token : {"admin", "user"}, id : MySegment..(Len(orders) + 1),
        status : {"pending", "preparing", "ready", "completed", "cancelled"}]

PostStep ==
  \/ \E c \in DOMAIN post, n \in PostNames, it \in PostItems : PostOrder(c, n, it)
  \/ \E c \in DOMAIN post : PostLookup(c)
  \/ \E c \in DOMAIN post : PostInsert(c)
  \/ \E c \in DOMAIN post : PostCount(c)

PatchStep ==
  \/ \E p \in DOMAIN patch, r \in PatchRequests : PatchFind(p, r.token, r.id, r.status)
  \/ \E p \in DOMAIN patch : PatchSave(p)
  \/ \E p \in DOMAIN patch : PatchAfterSave(p)

GetStep ==
  \/ \E g \in DOMAIN get, id \in MySegment..(Len(orders) + 1) : GetFind(g, id)
  \/ \E g \in DOMAIN get : GetCount(g)

EmitStep ==
  \/ \E y \in DOMAIN cycles : EmitFind(y)
  \/ \E y \in DOMAIN cycles : EmitPublish(y)

\* Create-from-cart requests: without a token, with a bad one, with an admin
\* token, with the customer's token and with that of a deleted account.
FromCartStep ==
  \/ \E f \in DOMAIN fromcart, token \in {"none", "invalid", "admin", "user", "gone"} :
       FromCartUser(f, token)
  \/ \E f \in DOMAIN fromcart : FromCartCart(f)
  \/ \E f \in DOMAIN fromcart : FromCartLookup(f)
  \/ \E f \in DOMAIN fromcart : FromCartInsert(f)
  \/ \E f \in DOMAIN fromcart : FromCartCount(f)
  \/ \E f \in DOMAIN fromcart : FromCartClear(f)

\* List requests: without a token, with a bad one, and with the tokens of
\* an admin, of the kitchen and of a customer.
ListStep == \E token \in {"none", "invalid", "admin", "kitchen", "user"} : ListActive(token)

\* The texts a request names a catalog item by: the empty text, a text that
\* is no id, the id of the first catalog item in upper-case digits, and the
\* ids of an available, an unavailable and a deleted catalog item and of
\* the items created since.
ItemTexts == {EmptyText, MySegment, UpperCase(1)} \cup 1..MaxMenu

\* Registrations: without a name, without a phone, with a malformed phone,
\* with a password that is too short, and with the phone of the stored
\* customer and a new one.
RegisterBodies ==
  {[name |-> "", phone |-> 2, password |-> 6],
   [name |-> "Cy", password |-> 6],
   [name |-> "Cy", phone |-> BadPhone, password |-> 5],
   [name |-> "Cy", phone |-> 1, password |-> 6],
   [name |-> "Cy", phone |-> 2, password |-> 6]}

\* Profile updates: with an empty name, with a new name, with the stored
\* one, and without a name.
MeBodies == {[name |-> ""], [name |-> "Rob"], [name |-> "Bob"], [phone |-> 2]}

\* The requests of the account routes.
AccountStep ==
  \/ \E s \in DOMAIN side, body \in RegisterBodies : Register(s, body)
  \/ \E s \in DOMAIN side : RegisterUser(s)
  \/ \E s \in DOMAIN side : RegisterCart(s)
  \/ \E s \in DOMAIN side, token \in {"admin", "user"}, body \in MeBodies :
       MePut(s, token, body)
  \/ \E s \in DOMAIN side : MePutSave(s)
  \/ \E s \in DOMAIN side, token \in {"admin", "user"} : MeDeleteUser(s, token)
  \/ \E s \in DOMAIN side : MeDeleteCart(s)

\* The requests of the cart routes: with an admin token and with the
\* customer's, with quantities 0, 1 and 2.
CartStep ==
  \/ \E s \in DOMAIN side, token \in {"admin", "user"} : CartGet(s, token)
  \/ \E s \in DOMAIN side, token \in {"admin", "user"},
        menuItemId \in ItemTexts, quantity \in {0, 1} :
       CartAdd(s, token, menuItemId, quantity)
  \/ \E s \in DOMAIN side : CartAddFind(s)
  \/ \E s \in DOMAIN side : CartAddCreate(s)
  \/ \E s \in DOMAIN side : CartAddSave(s)
  \/ \E s \in DOMAIN side, token \in {"admin", "user"},
        menuItemId \in ItemTexts, quantity \in {0, 1, 2} :
       CartPut(s, token, menuItemId, quantity)
  \/ \E s \in DOMAIN side : CartPutSave(s)
  \/ \E s \in DOMAIN side, token \in {"admin", "user"}, menuItemId \in ItemTexts :
       CartRemove(s, token, menuItemId)
  \/ \E s \in DOMAIN side : CartRemoveSave(s)
  \/ \E s \in DOMAIN side, token \in {"admin", "user"} : CartClear(s, token)
  \/ \E s \in DOMAIN side : CartClearSave(s)
  \/ \E s \in DOMAIN side : buildCartResponse(s)

SideStep == AccountStep \/ CartStep

\* Catalog requests: a creation with valid fields, without a name, with a
\* negative price and an unknown category, and of an unavailable item; an
\* update of the price, to a negative price, of the availability, to an
\* empty name, to an unknown category, and of a field that is not allowed.
MenuBodies ==
  {[name |-> "Pie", price |-> 30, category |-> "Dessert"],
   [name |-> "", price |-> 30, category |-> "Dessert"],
   [name |-> "Pie", price |-> 0 - 1, category |-> "Soup"],
   [name |-> "Pie", price |-> 30, category |-> "Dessert", isAvailable |-> FALSE]}

MenuUpdates ==
  {[price |-> 60], [price |-> 0 - 1], [isAvailable |-> TRUE], [name |-> ""],
   [category |-> "Soup"], [stock |-> 5]}

MenuStep ==
  \/ \E token \in {"none", "kitchen", "admin"}, body \in MenuBodies :
       MenuPost(token, body)
  \/ \E token \in {"none", "kitchen", "admin"}, id \in ItemTexts,
        updates \in MenuUpdates :
       MenuPut(token, id, updates)
  \/ \E token \in {"none", "kitchen", "admin"}, id \in ItemTexts :
       MenuDelete(token, id)

FaultStep ==
  \/ \E p \in DOMAIN patch, n \in 0..1, outcome \in ThrowOutcomes :
       PatchReadyThrows(p, n, outcome)
  \/ \E y \in DOMAIN cycles, n \in 0..3, outcome \in {"hang", "exit"} :
       EmitThrows(y, n, outcome)

\* The requests of all routes and the broadcasts they trigger.  Failing
\* publishes are taken up by SpecFault.
Next ==
  \/ Tick \/ PostStep \/ FromCartStep \/ PatchStep \/ GetStep \/ ListStep \/ EmitStep
  \/ SideStep \/ MenuStep

Spec == Init /\ [][Next]_vars

\* Transitions and fetches, concurrent, on a repository that holds orders.
InitPatch == \E repo \in Repositories : Started(repo, 0, NumPatch, NumGet, NumCycles)

NextPatch == PatchStep \/ GetStep \/ EmitStep

SpecPatch == InitPatch /\ [][NextPatch]_vars

\* One transition request at a time, with the broadcast it triggers, on a
\* repository that holds orders.
InitStaff == \E repo \in Repositories : Started(repo, 0, 1, 0, 1)

NextStaff == PatchStep \/ EmitStep

SpecStaff == InitStaff /\ [][NextStaff]_vars

\* Position queries on a repository that holds orders.
InitRank == \E repo \in Repositories : Started(repo, 0, 0, NumGet, 0)

NextRank == GetStep

SpecRank == InitRank /\ [][NextRank]_vars

\* Concurrent creations and fetches from an empty repository.
InitCreate == Started(<<>>, NumPost, 0, NumGet, NumCycles)

NextCreate == Tick \/ PostStep \/ GetStep \/ EmitStep

SpecCreate == InitCreate /\ [][NextCreate]_vars

\* One transition request at a time with two runs of emitQueueUpdate in
\* flight, on a repository that holds orders.
InitOverlap == \E repo \in Repositories : Started(repo, 0, 1, 0, 2)

NextOverlap == PatchStep \/ EmitStep

SpecOverlap == InitOverlap /\ [][NextOverlap]_vars

\* Creations, direct and from the cart, and transitions with the broadcasts
\* they trigger, from an empty repository.  Two create-from-cart requests of
\* the customer can be in flight at once.
InitLive ==
  Boot(<<>>, <<[items |-> <<Item(1, 1)>>, v |-> 0, id |-> 1]>>, 1, 2, 1, 0, 1)

NextLive == PostStep \/ FromCartStep \/ PatchStep \/ EmitStep

\* The steps that continue a handler or a run of emitQueueUpdate in flight.
PostContinue == \E c \in DOMAIN post : PostLookup(c) \/ PostInsert(c) \/ PostCount(c)

FromCartContinue ==
  \E f \in DOMAIN fromcart :
    \/ FromCartCart(f) \/ FromCartLookup(f) \/ FromCartInsert(f)
    \/ FromCartCount(f) \/ FromCartClear(f)

PatchContinue == \E p \in DOMAIN patch : PatchSave(p) \/ PatchAfterSave(p)

\* The repository answers every operation and the event loop runs every
\* continuation that is ready: no handler in flight waits forever.
SpecLive ==
  /\ InitLive /\ [][NextLive]_vars
  /\ WF_vars(PostContinue) /\ WF_vars(FromCartContinue)
  /\ WF_vars(PatchContinue) /\ WF_vars(EmitStep)

\* Creations and transitions with the broadcasts they trigger, where a
\* publish can fail, from an empty repository.
InitFault == Started(<<>>, 1, 1, 0, 1)

NextFault == PostStep \/ PatchStep \/ EmitStep \/ FaultStep

SpecFault == InitFault /\ [][NextFault]_vars

\* Creations, direct and from the cart, from an empty repository and any
\* cart of the customer, with every request input.
InitCart == \E cartsAtStart \in StoredCarts : Boot(<<>>, cartsAtStart, 1, 1, 0, 0, 1)

NextCart == PostStep \/ FromCartStep \/ EmitStep

SpecCart == InitCart /\ [][NextCart]_vars

\* Creations, direct and from the cart, and transitions while the catalog
\* changes, from an empty repository.  The requests are those that get past
\* the checks of their handlers.
ShopPost ==
  \/ \E c \in DOMAIN post : PostOrder(c, "Ann", <<Item(1, 2), Item(2, 1)>>)
  \/ PostContinue

ShopFromCart ==
  \/ \E f \in DOMAIN fromcart : FromCartUser(f, "user")
  \/ FromCartContinue

ShopPatch ==
  \/ \E p \in DOMAIN patch, id \in DOMAIN orders :
       PatchFind(p, "admin", id, "preparing")
  \/ PatchContinue

ShopMenu ==
  \/ MenuPut("admin", 1, [price |-> 60])
  \/ MenuPut("admin", 2, [isAvailable |-> TRUE])
  \/ MenuDelete("admin", 2)

InitShop ==
  Boot(<<>>, <<[items |-> <<Item(1, 2), Item(2, 1)>>, v |-> 0, id |-> 1]>>, 1, 1, 1, 0, 1)

NextShop == ShopPost \/ ShopFromCart \/ ShopPatch \/ EmitStep \/ ShopMenu

SpecShop == InitShop /\ [][NextShop]_vars

\* One creation, one transition and one fetch at a time, with the broadcasts
\* they trigger, from an empty repository and within one millisecond.  The
\* creations are valid, the transition requests carry an admin token and
\* name a stored order and any status of the enum.
InitQuery == Started(<<>>, 1, 1, 1, 1)

QueryPost ==
  \/ \E c \in DOMAIN post : PostOrder(c, "Ann", <<Item(1, 1)>>)
  \/ PostContinue

QueryPatch ==
  \/ \E p \in DOMAIN patch, id \in DOMAIN orders,
        status \in {"pending", "preparing", "ready", "completed"} :
       PatchFind(p, "admin", id, status)
  \/ PatchContinue

NextQuery == QueryPost \/ QueryPatch \/ GetStep \/ EmitStep

SpecQuery == InitQuery /\ [][NextQuery]_vars

\* Lists of the active orders between transitions, on a repository that
\* holds orders.
InitList == \E repo \in Repositories : Started(repo, 0, 1, 0, 1)

NextList == ListStep \/ PatchStep \/ EmitStep

SpecList == InitList /\ [][NextList]_vars

\* Creations one after the other and transitions one at a time, while the
\* clock advances or not, from an empty repository.
InitOrdered == Started(<<>>, 1, 1, 0, 1)

NextOrdered == Tick \/ QueryPost \/ QueryPatch \/ EmitStep

SpecOrdered == InitOrdered /\ [][NextOrdered]_vars

\* Two requests at a time to the cart and account routes, on any stored cart
\* and a repository of one order.
InitSide ==
  \E cart \in StoredCarts : BootWith(<<StoredOrder>>, cart, 0, 0, 0, 0, 0, 2)

NextSide == SideStep

SpecSide == InitSide /\ [][NextSide]_vars

\* The catalog requests, with the customer's requests to read the cart and
\* to add to it, on a cart that holds the second catalog item and a
\* repository of one order.
InitCatalog ==
  BootWith(<<StoredOrder>>, <<[items |-> <<Item(2, 1)>>, v |-> 0, id |-> 1]>>,
           0, 0, 0, 0, 0, 1)

CatalogCart ==
  \/ \E s \in DOMAIN side : CartGet(s, "user")
  \/ \E s \in DOMAIN side, menuItemId \in ItemTexts : CartAdd(s, "user", menuItemId, 1)
  \/ \E s \in DOMAIN side : CartAddFind(s)
  \/ \E s \in DOMAIN side : CartAddSave(s)
  \/ \E s \in DOMAIN side : buildCartResponse(s)

NextCatalog == MenuStep \/ CatalogCart

SpecCatalog == InitCatalog /\ [][NextCatalog]_vars

\* The customer's requests and the deletion of a catalog item, one request
\* of each kind at a time, from an empty repository: creations from the
\* cart, add-to-cart, cart clearing and the deletion of the account.
InitKeep ==
  BootWith(<<>>, <<[items |-> <<Item(1, 1)>>, v |-> 0, id |-> 1]>>, 0, 1, 0, 0, 1, 1)

KeepSide ==
  \/ \E s \in DOMAIN side : MeDeleteUser(s, "user")
  \/ \E s \in DOMAIN side : MeDeleteCart(s)
  \/ \E s \in DOMAIN side : CartAdd(s, "user", 1, 1)
  \/ \E s \in DOMAIN side : CartAddFind(s)
  \/ \E s \in DOMAIN side : CartAddCreate(s)
  \/ \E s \in DOMAIN side : CartAddSave(s)
  \/ \E s \in DOMAIN side : buildCartResponse(s)
  \/ \E s \in DOMAIN side : CartClear(s, "user")
  \/ \E s \in DOMAIN side : CartClearSave(s)

KeepMenu == MenuDelete("admin", 1)

NextKeep == ShopFromCart \/ EmitStep \/ KeepMenu \/ KeepSide

SpecKeep == InitKeep /\ [][NextKeep]_vars

\* Two transition requests at a time for the one order of the repository,
\* by the staff, with the broadcasts they trigger.  A handler in flight and
\* a run of emitQueueUpdate go on when the operation they await resolves.
InitTwice == \E repo \in Repositories : Len(repo) = 1 /\ Started(repo, 0, 2, 0, 1)

TwicePatch ==
  \/ \E p \in DOMAIN patch, status \in {"pending", "preparing", "ready", "completed"} :
       PatchFind(p, "admin", 1, status)
  \/ PatchContinue

NextTwice == TwicePatch \/ EmitStep

SpecTwice ==
  /\ InitTwice /\ [][NextTwice]_vars
  /\ WF_vars(PatchContinue) /\ WF_vars(EmitStep)

\* One filling of the customer's cart: two create-from-cart requests and one
\* add-to-cart request of the customer in flight at once, from an empty
\* repository.  The add-to-cart request names the catalog item the cart holds.
InitFill ==
  BootWith(<<>>, <<[items |-> <<Item(1, 1)>>, v |-> 0, id |-> 1]>>, 0, 2, 0, 0, 1, 1)

FillFromCart ==
  \/ \E f \in DOMAIN fromcart : FromCartUser(f, "user")
  \/ \E f \in DOMAIN fromcart : FromCartCart(f)
  \/ \E f \in DOMAIN fromcart : FromCartLookup(f)
  \/ \E f \in DOMAIN fromcart : FromCartInsert(f)
  \/ \E f \in DOMAIN fromcart : FromCartCount(f)
  \/ \E f \in DOMAIN fromcart : FromCartClear(f)

FillSide ==
  \/ \E s \in DOMAIN side : CartAdd(s, "user", 1, 1)
  \/ \E s \in DOMAIN side : CartAddFind(s)
  \/ \E s \in DOMAIN side : CartAddSave(s)
  \/ \E s \in DOMAIN side : buildCartResponse(s)

NextFill == FillFromCart \/ FillSide \/ EmitStep

SpecFill == InitFill /\ [][NextFill]_vars

\* Transition requests that carry no token, a bad one or a customer's, and
\* never a staff token, on a repository that holds orders.
InitCustomer == \E repo \in Repositories : Started(repo, 0, 1, 0, 1)

CustomerPatch ==
  \/ \E p \in DOMAIN patch, token \in {"none", "invalid", "user"},
        id \in MySegment..(Len(orders) + 1),
        status \in {"pending", "preparing", "ready", "completed", "cancelled"} :
       PatchFind(p, token, id, status)
  \/ PatchContinue

NextCustomer == CustomerPatch \/ EmitStep

SpecCustomer == InitCustomer /\ [][NextCustomer]_vars

\* ================================================================ claims
\* The place of a status in pending -> preparing -> ready -> completed.
PipelineIndex(status) ==
  CASE status = "pending"   -> 1
    [] status = "preparing" -> 2
    [] status = "ready"     -> 3
    [] status = "completed" -> 4

\* b is the one status that follows a in the pipeline.
FollowsInPipeline(a, b) == PipelineIndex(b) = PipelineIndex(a) + 1

\* C1: the status stored for an order only ever moves to the next status of
\* the pipeline: no step skips a status, goes back, or leaves completed.
C1_ForwardOnly ==
  [][\A i \in DOMAIN orders :
       orders'[i].status # orders[i].status
         => FollowsInPipeline(orders[i].status, orders'[i].status)]_vars

\* A transition request whose save has been applied: it returns the order.
Succeeded(p) == patch[p].pc = "saved"

\* C2: two transition requests of one order that read the same prior status
\* never both succeed.
C2_SerializedPerOrder ==
  \A p, q \in DOMAIN patch :
    (p # q /\ Succeeded(p) /\ Succeeded(q) /\ patch[p].id = patch[q].id)
      => patch[p].read # patch[q].read

\* C3: a request for a status that does not follow the order's current status
\* is never accepted; it is answered "Cannot transition", and that step leaves
\* the stored orders as they were, emits nothing and starts no broadcast.
C3_InvalidTransitionRejected ==
  [][/\ \A p \in DOMAIN patch :
          (patch[p].pc = "idle" /\ patch'[p].pc = "save")
            => FollowsInPipeline(orders[patch'[p].id].status, patch'[p].status)
     /\ (res'.op = "PATCH" /\ res'.code = 200)
          => FollowsInPipeline(res'.from, res'.status)
     /\ (res'.op = "PATCH" /\ res'.type = "Cannot transition")
          => /\ res'.code = 400
             /\ ~FollowsInPipeline(orders[res'.id].status, res'.status)
             /\ orders' = orders
             /\ patch' = patch
             /\ cycles' = cycles
             /\ emitted'.msgs = <<>>]_vars

C3_Witness ==
  /\ res.op = "PATCH"
  /\ res.type = "Cannot transition"
  /\ res.from = "pending"
  /\ res.status = "completed"
  /\ orders[res.id].status = "pending"

\* The legal next statuses of each status, as the rejection is to name them.
NamedNext(status) ==
  CASE status = "pending"   -> "preparing"
    [] status = "preparing" -> "ready"
    [] status = "ready"     -> "completed"
    [] status = "completed" -> "none (order is completed)"

\* C4: every "Cannot transition" rejection names the order's current status
\* and exactly its legal next statuses; ready -> preparing names completed.
C4_RejectionNamesAllowed ==
  (res.op = "PATCH" /\ res.type = "Cannot transition")
    => /\ res.from = orders[res.id].status
       /\ res.allowed = NamedNext(res.from)
       /\ (res.from = "ready" /\ res.status = "preparing")
            => res.allowed = "completed"

C4_Witness ==
  /\ res.op = "PATCH"
  /\ res.type = "Cannot transition"
  /\ res.from = "ready"
  /\ res.status = "preparing"
  /\ res.allowed = "completed"

\* C5: no two stored orders have the same createdAt, and the order whose
\* creation call arrived first has the smaller createdAt.
C5_KeysUniqueInCallOrder ==
  \A i, j \in DOMAIN orders :
    i # j => /\ orders[i].createdAt # orders[j].createdAt
             /\ hist[i].call < hist[j].call
                  => orders[i].createdAt < orders[j].createdAt

\* 1 + the number of active orders created strictly before order i.
RankOf(i) ==
  1 + Cardinality({j \in DOMAIN orders :
                     /\ orders[j].status \in ActiveStatuses
                     /\ orders[j].createdAt < orders[i].createdAt})

\* C6: for every stored order getQueuePosition is 1 + the number of pending
\* or preparing orders with a strictly smaller createdAt, and a fetch that
\* reports a position reports that number.
C6_PositionIsRank ==
  /\ \A i \in DOMAIN orders : getQueuePosition(orders[i], orders) = RankOf(i)
  /\ (res.op = "GET" /\ res.code = 200 /\ res.queuePosition # <<>>)
       => res.queuePosition = <<RankOf(res.id)>>

C6_Witness ==
  /\ res.op = "GET"
  /\ res.code = 200
  /\ res.queuePosition = <<1>>
  /\ \E j \in DOMAIN orders :
       orders[j].status = "completed" /\ orders[j].createdAt < orders[res.id].createdAt

\* The lists one run of emitQueueUpdate published: on queue:update and on
\* kitchen:queue.
PublishedLists ==
  {emitted.msgs[k].data : k \in {n \in DOMAIN emitted.msgs :
      emitted.msgs[n].event \in {"queue:update", "kitchen:queue"}}}

\* C7: a list published by emitQueueUpdate holds exactly the orders that were
\* active at its read, each once, in ascending createdAt order, and its
\* queuePosition values are exactly 1..n.
C7_SnapshotIsActiveSetRanked ==
  emitted.by = "emitQueueUpdate"
    => \A data \in PublishedLists :
         /\ {data[k].orderId : k \in DOMAIN data} = emitted.active
         /\ Len(data) = Cardinality(emitted.active)
         /\ \A a, b \in DOMAIN data :
              a < b => orders[data[a].orderId].createdAt
                         <= orders[data[b].orderId].createdAt
         /\ {data[k].queuePosition : k \in DOMAIN data} = 1..Len(data)

C7_Witness ==
  /\ emitted.by = "emitQueueUpdate"
  /\ \E data \in PublishedLists :
       /\ Len(data) = 2
       /\ data[1].orderId = 2
       /\ orders[2].createdAt < orders[1].createdAt

\* C8: once the creation requests have all been answered, with no transition
\* made, the stored orders have distinct createdAt and the positions reported
\* for them, by the creation responses and by position queries, are 1..n.
C8_RanksBijective ==
  (\A c \in DOMAIN post : post[c].pc = "idle")
    => /\ \A i, j \in DOMAIN orders :
            i # j => orders[i].createdAt # orders[j].createdAt
       /\ {getQueuePosition(orders[i], orders) : i \in DOMAIN orders}
            = 1..Len(orders)
       /\ {hist[i].createdPos : i \in DOMAIN orders} = 1..Len(orders)

RoomMsgs(id) ==
  {k \in DOMAIN emitted.msgs :
     /\ emitted.msgs[k].room = "order"
     /\ emitted.msgs[k].id = id
     /\ emitted.msgs[k].event = "queue:position"}

\* C9: in one run of emitQueueUpdate the kitchen list equals the global list,
\* and every order of the global list gets, on its own channel, one message
\* with the status and queuePosition the global list shows for it.
C9_ChannelsAgree ==
  emitted.by = "emitQueueUpdate"
    => LET global == emitted.msgs[1]
           kitchen == emitted.msgs[Len(emitted.msgs)]
       IN /\ global.room = "*" /\ global.event = "queue:update"
          /\ kitchen.room = "kitchen" /\ kitchen.event = "kitchen:queue"
          /\ kitchen.data = global.data
          /\ \A k \in DOMAIN global.data :
               /\ Cardinality(RoomMsgs(global.data[k].orderId)) = 1
               /\ \A n \in RoomMsgs(global.data[k].orderId) :
                    /\ emitted.msgs[n].data.orderId = global.data[k].orderId
                    /\ emitted.msgs[n].data.status = global.data[k].status
                    /\ emitted.msgs[n].data.queuePosition
                         = global.data[k].queuePosition

C9_Witness ==
  /\ emitted.by = "emitQueueUpdate"
  /\ Len(emitted.msgs) = 4
  /\ emitted.msgs[1].data[1].status = "preparing"
  /\ emitted.msgs[1].data[2].status = "pending"

\* C10: every list sent on the global channel (queue:update) holds all the
\* orders that were active at the read it was built from or, when it was built
\* from no read, at the moment it was sent.
C10_GlobalListComplete ==
  \A k \in DOMAIN emitted.msgs :
    (emitted.msgs[k].room = "*" /\ emitted.msgs[k].event = "queue:update")
      => emitted.active
           \subseteq {emitted.msgs[k].data[n].orderId : n \in DOMAIN emitted.msgs[k].data}

\* The orders a queue message names: the entries of a list, or the order of
\* a position message.
Named(msg) ==
  IF msg.event \in {"queue:update", "kitchen:queue"}
  THEN {msg.data[n].orderId : n \in DOMAIN msg.data}
  ELSE IF msg.event = "queue:position" THEN {msg.data.orderId}
  ELSE {}

\* C11: an order whose stored status is neither pending nor preparing is
\* named by no queue message published from then on, on any channel, and a
\* position query made from then on reports no position for it.
C11_LeftOrdersStayOut ==
  [][/\ \A k \in DOMAIN emitted'.msgs :
          \A i \in Named(emitted'.msgs[k]) : isActive(orders[i])
     /\ (res'.op = "GET" /\ res'.code = 200 /\ \A g \in DOMAIN get : get[g].pc = "idle")
          => (res'.queuePosition = <<>> <=> ~isActive(orders[res'.id]))]_vars

\* The order-ready notification of order id, as sent to its own channel.
ReadyMsg(id) ==
  [room |-> "order", id |-> id, event |-> "order:ready", data |-> [orderId |-> id]]

\* C12: the step that answers a successful transition into ready emits the
\* order-ready notification to the order's own channel and nothing else, the
\* queue snapshot being left to the broadcast it starts; no other step emits
\* an order-ready notification.
C12_ReadyNoticeTargetedOnly ==
  [][IF res'.op = "PATCH" /\ res'.code = 200 /\ res'.status = "ready"
     THEN /\ emitted'.msgs = <<ReadyMsg(res'.id)>>
          /\ \E y \in DOMAIN cycles : cycles[y].pc = "idle" /\ cycles'[y].pc = "find"
     ELSE \A k \in DOMAIN emitted'.msgs : emitted'.msgs[k].event # "order:ready"]_vars

\* The messages of the step just taken that went to the channel of order id.
ToRoom(id) ==
  {k \in DOMAIN emitted.msgs : emitted.msgs[k].room = "order" /\ emitted.msgs[k].id = id}

\* C13: when an order moves preparing -> ready its channel receives one
\* order-ready notification and one queue-position message that reports no
\* position, and no snapshot published while it is ready lists it.
C13_FinalNoPositionMessage ==
  /\ (res.op = "PATCH" /\ res.code = 200 /\ res.from = "preparing" /\ res.status = "ready")
       => /\ Cardinality({k \in ToRoom(res.id) :
                            emitted.msgs[k].event = "order:ready"}) = 1
          /\ Cardinality({k \in ToRoom(res.id) :
                            /\ emitted.msgs[k].event = "queue:position"
                            /\ emitted.msgs[k].data.queuePosition = <<>>}) = 1
  /\ emitted.by = "emitQueueUpdate"
       => \A k \in DOMAIN emitted.msgs :
            \A i \in Named(emitted.msgs[k]) : orders[i].status # "ready"

\* The place of order id in the list a run of emitQueueUpdate read.
PlaceInRead(id) == CHOOSE n \in DOMAIN emitted.read : emitted.read[n].id = id

\* C14: a message sent to the channel of order X is about X: a position
\* message carries orderId X with the status and the position X had in the
\* list that was read, and nothing else; in one run of emitQueueUpdate every
\* order active at the read gets one position message and no other order any.
C14_RoomGetsOwnPositionOnly ==
  /\ \A k \in DOMAIN emitted.msgs :
       emitted.msgs[k].room = "order"
         => /\ emitted.msgs[k].data.orderId = emitted.msgs[k].id
            /\ emitted.msgs[k].event = "queue:position"
                 => /\ DOMAIN emitted.msgs[k].data = {"orderId", "status", "queuePosition"}
                    /\ emitted.msgs[k].id \in emitted.active
                    /\ emitted.msgs[k].data.status
                         = emitted.read[PlaceInRead(emitted.msgs[k].id)].status
                    /\ emitted.msgs[k].data.queuePosition
                         = PlaceInRead(emitted.msgs[k].id)
  /\ emitted.by = "emitQueueUpdate"
       => \A i \in DOMAIN orders :
            Cardinality({k \in ToRoom(i) : emitted.msgs[k].event = "queue:position"})
              = (IF i \in emitted.active THEN 1 ELSE 0)

C14_Witness ==
  /\ emitted.by = "emitQueueUpdate"
  /\ \E j, k \in DOMAIN emitted.msgs :
       /\ emitted.msgs[j].event = "queue:position"
       /\ emitted.msgs[k].event = "queue:position"
       /\ emitted.msgs[j].id = 2 /\ emitted.msgs[j].data.queuePosition = 1
       /\ emitted.msgs[k].id = 1 /\ emitted.msgs[k].data.queuePosition = 2
       /\ emitted.msgs[j].data.status # emitted.msgs[k].data.status

\* The orders of a published list with their statuses.
Listed(data) ==
  {[orderId |-> data[n].orderId, status |-> data[n].status] : n \in DOMAIN data}

\* C15: when a publish of emitQueueUpdate leaves no transition request and
\* no run of emitQueueUpdate in flight, the list it sent on the global and on
\* the kitchen channel is the active set the repository holds.
C15_LastSnapshotIsCurrent ==
  [][(/\ emitted'.by = "emitQueueUpdate"
      /\ \A p \in DOMAIN patch : patch'[p].pc = "idle"
      /\ \A y \in DOMAIN cycles : cycles'[y].pc = "idle")
       => \A k \in DOMAIN emitted'.msgs :
            emitted'.msgs[k].event \in {"queue:update", "kitchen:queue"}
              => Listed(emitted'.msgs[k].data)
                   = {[orderId |-> i, status |-> orders'[i].status] :
                        i \in ActiveIds(orders')}]_vars

\* A run of emitQueueUpdate has been started and has not read yet.
CycleReading == \E y \in DOMAIN cycles : cycles[y].pc = "find"

\* C16: once the insert of a creation (direct or from the cart) or the save
\* of a transition has been applied, a run of emitQueueUpdate reads the
\* repository, now or later, and every run that reads goes on to publish.
C16_MutationsBroadcast ==
  /\ (\E c \in DOMAIN post : post[c].pc = "count") ~> CycleReading
  /\ (\E f \in DOMAIN fromcart : fromcart[f].pc = "count") ~> CycleReading
  /\ (\E p \in DOMAIN patch : patch[p].pc = "saved") ~> CycleReading
  /\ CycleReading ~> (emitted.by = "emitQueueUpdate")

\* C17: whatever fails while publishing, a transition whose save has been
\* applied and a creation whose insert has been applied end with the success
\* response to their caller, and the step that ends them leaves the stored
\* orders as they are.
C17_PublishFailureIsolated ==
  [][/\ \A p \in DOMAIN patch :
          (patch[p].pc = "saved" /\ patch'[p].pc # "saved")
            => /\ res'.op = "PATCH" /\ res'.code = 200
               /\ res'.id = patch[p].id /\ res'.status = patch[p].status
               /\ orders' = orders
     /\ \A c \in DOMAIN post :
          (post[c].pc = "count" /\ post'[c].pc # "count")
            => /\ res'.op = "POST" /\ res'.code = 201
               /\ res'.id = post[c].id
               /\ orders' = orders]_vars

\* The sum of quantity x price over line items.
RECURSIVE SumLines(_)
SumLines(items) ==
  IF Len(items) = 0 THEN 0
  ELSE items[1].quantity * items[1].price + SumLines(Tail(items))

\* The line items a creation handler has built so far.
Built(slot) == IF slot.pc = "lookup" THEN slot.orderItems ELSE slot.doc.items

\* The line a lookup step added for the requested line `item`, reading the
\* catalog as it was before the step.
AddedFrom(before, after, item) ==
  /\ Len(Built(after)) = Len(before.orderItems) + 1
  /\ Built(after)[Len(Built(after))].menuItemId = item.menuItemId
  /\ Built(after)[Len(Built(after))].quantity = item.quantity
  /\ Built(after)[Len(Built(after))].price = menu[item.menuItemId].price

\* C18: every stored order's totalAmount is the sum of quantity x price over
\* its own line items; each line price is the catalog price read by the
\* lookup that built the line; and no step (catalog change, deletion,
\* transition, or any other) changes the items or the totalAmount of a stored
\* order.
C18_TotalIsPriceSnapshot ==
  [][/\ \A i \in DOMAIN orders' :
          orders'[i].totalAmount = SumLines(orders'[i].items)
     /\ \A i \in DOMAIN orders :
          /\ i \in DOMAIN orders'
          /\ orders'[i].items = orders[i].items
          /\ orders'[i].totalAmount = orders[i].totalAmount
     /\ \A c \in DOMAIN post :
          (/\ post[c].pc = "lookup" /\ post'[c] # post[c]
           /\ post'[c].pc \in {"lookup", "insert"})
            => AddedFrom(post[c], post'[c], post[c].items[post[c].i])
     /\ \A f \in DOMAIN fromcart :
          (/\ fromcart[f].pc = "lookup" /\ fromcart'[f] # fromcart[f]
           /\ fromcart'[f].pc \in {"lookup", "insert"})
            => AddedFrom(fromcart[f], fromcart'[f],
                         fromcart[f].cart.items[fromcart[f].i])
     /\ Len(orders') > Len(orders)
          => \/ \E c \in DOMAIN post :
                  post[c].pc = "insert" /\ orders' = Append(orders, post[c].doc)
             \/ \E f \in DOMAIN fromcart :
                  fromcart[f].pc = "insert" /\ orders' = Append(orders, fromcart[f].doc)]_vars

C18_Witness ==
  \E i \in DOMAIN orders :
    /\ Len(orders[i].items) = 2
    /\ orders[i].items[1].quantity = 2
    /\ orders[i].totalAmount = 120
    /\ orders[i].status = "preparing"
    /\ 2 \notin DOMAIN menu
    /\ menu[1].price # orders[i].items[1].price

\* The steps that answer with the rejection of a line item.
ItemRejections == {"Menu item not found", "currently unavailable", "no longer exists"}

\* A step that rejected a request: nothing stored, no cart changed, no
\* broadcast started, nothing emitted.
NothingDone ==
  /\ orders' = orders
  /\ carts' = carts
  /\ cycles' = cycles
  /\ emitted'.msgs = <<>>

\* The process exits at this step, by the unhandled rejection of a handler,
\* and drops every request in flight without an answer.
ProcessExits ==
  /\ res' = NoRes
  /\ post' = Idled(post)
  /\ fromcart' = Idled(fromcart)
  /\ patch' = Idled(patch)
  /\ get' = Idled(get)
  /\ cycles' = Idled(cycles)
  /\ side' = Idled(side)

\* A step that stored no order, changed no cart and emitted nothing.
NothingStored ==
  /\ orders' = orders
  /\ carts' = carts
  /\ emitted'.msgs = <<>>

\* The menuItemId names a catalog entry that is missing or marked unavailable.
NotOrderable(menuItemId) ==
  /\ isObjectId(menuItemId)
  /\ \/ castObjectId(menuItemId) \notin DOMAIN menu
     \/ ~menu[castObjectId(menuItemId)].isAvailable

\* C19: when the lookup of a line item (of a direct request or of a cart)
\* finds the catalog entry missing or unavailable, the request ends there with
\* a 400: the items looked up before it are dropped with the handler, no
\* order is stored, no cart changes and no broadcast is started.  A request
\* that is dropped at its lookup because the process exits, and a direct
\* request that ends at a lookup because the menuItemId of its next item is
\* no id, store nothing either.
C19_RejectedAsAWhole ==
  [][/\ \A c \in DOMAIN post :
          (/\ post[c].pc = "lookup" /\ post'[c] # post[c]
           /\ NotOrderable(post[c].items[post[c].i].menuItemId))
            => \/ /\ res'.op = "POST" /\ res'.code = 400
                  /\ post'[c] = IdlePost
                  /\ NothingDone
               \/ ProcessExits /\ NothingStored
     /\ \A f \in DOMAIN fromcart :
          (/\ fromcart[f].pc = "lookup" /\ fromcart'[f] # fromcart[f]
           /\ NotOrderable(fromcart[f].cart.items[fromcart[f].i].menuItemId))
            => \/ /\ res'.op = "FROMCART" /\ res'.code = 400
                  /\ fromcart'[f] = IdleFrom
                  /\ NothingDone
               \/ ProcessExits /\ NothingStored
     /\ \A c \in DOMAIN post :
          (post[c].pc = "lookup" /\ post'[c] = IdlePost) => NothingStored
     /\ (res'.op \in {"POST", "FROMCART"} /\ res'.type \in ItemRejections)
          => res'.code = 400 /\ NothingDone]_vars

C19_Witness ==
  /\ res.op = "FROMCART"
  /\ res.code = 400
  /\ res.type = "currently unavailable"
  /\ 1 \in DOMAIN carts
  /\ carts[1].items = <<Item(1, 2), Item(2, 1)>>
  /\ 1 \in DOMAIN menu /\ menu[1].isAvailable
  /\ 2 \in DOMAIN menu /\ ~menu[2].isAvailable
  /\ orders = <<>>

\* C20: every stored order has at least one line item; a direct request is
\* taken up only with at least one line; a create-from-cart request that
\* finds no cart or a cart without items ends with "Your cart is empty", or
\* is dropped because the process exits; and these rejections store nothing
\* and start no broadcast.
C20_NoEmptyOrder ==
  [][/\ \A i \in DOMAIN orders' : Len(orders'[i].items) >= 1
     /\ \A c \in DOMAIN post :
          (post[c].pc = "idle" /\ post'[c].pc # "idle") => Len(post'[c].items) >= 1
     /\ \A f \in DOMAIN fromcart :
          (/\ fromcart[f].pc = "cart" /\ fromcart'[f] # fromcart[f]
           /\ \/ fromcart[f].user.id \notin DOMAIN carts
              \/ carts[fromcart[f].user.id].items = <<>>)
            => \/ /\ res'.op = "FROMCART" /\ res'.code = 400
                  /\ res'.type = "Your cart is empty"
                  /\ fromcart'[f] = IdleFrom
                  /\ NothingDone
               \/ ProcessExits /\ NothingStored
     /\ (res'.op \in {"POST", "FROMCART"}
         /\ res'.type \in {"validation", "Your cart is empty"})
          => res'.code = 400 /\ NothingDone]_vars

C20_Witness ==
  /\ res.op = "FROMCART"
  /\ res.type = "Your cart is empty"
  /\ 1 \in DOMAIN carts
  /\ carts[1].items = <<>>
  /\ carts[1].v = 1
  /\ Len(orders) = 1

\* ---------------------------------------------------------------- C21
\* The catalog reference and the quantity of each line, in order.
Lines(items) == [k \in DOMAIN items |->
                   [menuItemId |-> items[k].menuItemId, quantity |-> items[k].quantity]]

\* The step answers the create-from-cart request of slot f with 201.
FromCartSucceeds(f) ==
  /\ fromcart[f].pc = "clear"
  /\ res'.op = "FROMCART"
  /\ res'.code = 201

\* C21: a create-from-cart request that succeeds has stored one order, whose
\* lines are the items of the owner's cart, references and quantities in
\* order, and leaves that cart empty; a step of a create-from-cart request
\* that is not the success leaves every cart as it was.
C21_FromCartMovesCartIntoOrder ==
  [][\A f \in DOMAIN fromcart :
       /\ FromCartSucceeds(f) =>
            LET userId == fromcart[f].user.id
            IN /\ res'.id \in DOMAIN orders'
               /\ Lines(orders'[res'.id].items) = Lines(carts[userId].items)
               /\ orders'[res'.id].userId = userId
               /\ Cardinality({i \in DOMAIN orders' :
                                 hist'[i].call = hist'[res'.id].call}) = 1
               /\ carts'[userId].items = <<>>
       /\ (fromcart'[f] # fromcart[f] /\ ~FromCartSucceeds(f)) => carts' = carts]_vars

\* A cart of two items was ordered: the order has its two lines and the
\* cart is empty.
C21_Witness ==
  /\ res.op = "FROMCART"
  /\ res.code = 201
  /\ Len(orders[res.id].items) = 2
  /\ carts[1].items = <<>>

\* ---------------------------------------------------------------- C22
\* C22: a fetch by id answers with a position exactly when the order it read
\* was pending or preparing at the moment of the read, and with the absence
\* of a position (never a number) when it was ready or completed; a position
\* is at least 1; a 201 of a creation carries the stored order and a position
\* of at least 1.
C22_PositionIffActiveAtFetch ==
  [][/\ \A g \in DOMAIN get :
          /\ (get[g].pc = "idle" /\ get'[g].pc = "count") =>
               /\ get'[g].doc = orders[get'[g].id]
               /\ isActive(get'[g].doc)
          /\ (get[g].pc = "idle" /\ res'.op = "GET" /\ res'.code = 200) =>
               /\ res'.order = orders[res'.id]
               /\ ~isActive(res'.order)
               /\ res'.queuePosition = <<>>
          /\ (get[g].pc = "count" /\ res'.op = "GET") =>
               /\ res'.code = 200
               /\ res'.order = get[g].doc
               /\ Len(res'.queuePosition) = 1
               /\ res'.queuePosition[1] >= 1
     /\ (res'.op \in {"POST", "FROMCART"} /\ res'.code = 201) =>
          /\ res'.id \in DOMAIN orders'
          /\ res'.order.items = orders'[res'.id].items
          /\ res'.order.createdAt = orders'[res'.id].createdAt
          /\ Len(res'.queuePosition) = 1
          /\ res'.queuePosition[1] >= 1]_vars

\* An order created in this run, with a position in its 201, was moved to
\* ready or completed and is fetched: the answer has no position.
C22_Witness ==
  /\ res.op = "GET"
  /\ res.code = 200
  /\ hist[res.id].createdPos >= 1
  /\ res.order.status \in {"ready", "completed"}
  /\ res.queuePosition = <<>>

\* ---------------------------------------------------------------- C23
\* C23: the list of active orders holds exactly the stored orders that are
\* pending or preparing, each once, in ascending createdAt order.
C23_ListIsActiveSetAscending ==
  (res.op = "LIST" /\ res.code = 200)
    => /\ {res.orders[k].id : k \in DOMAIN res.orders} = ActiveIds(orders)
       /\ Len(res.orders) = Cardinality(ActiveIds(orders))
       /\ \A k \in DOMAIN res.orders :
            /\ res.orders[k].status = orders[res.orders[k].id].status
            /\ res.orders[k].createdAt = orders[res.orders[k].id].createdAt
       /\ \A a, b \in DOMAIN res.orders :
            a < b => res.orders[a].createdAt <= res.orders[b].createdAt

\* Two active orders are listed, the one stored second first because it was
\* created earlier.
C23_Witness ==
  /\ res.op = "LIST"
  /\ res.code = 200
  /\ Len(res.orders) = 2
  /\ res.orders[1].id = 2
  /\ res.orders[1].createdAt < res.orders[2].createdAt

\* ---------------------------------------------------------------- C24
\* The rank by call order: one more than the number of active orders whose
\* creation request arrived earlier.
CallRank(i) ==
  1 + Cardinality({j \in ActiveIds(orders) : hist[j].call < hist[i].call})

\* The step is the save of a transition of order `id` from `from` to `to`.
Saves(p, from, to) ==
  /\ patch[p].pc = "save"
  /\ patch'[p].pc = "saved"
  /\ orders[patch[p].id].status = from
  /\ orders'[patch[p].id].status = to

\* C24: the position of an active order is its rank by call order among the
\* active orders; a transition pending -> preparing changes no position; a
\* transition preparing -> ready of an order lowers by 1 the position of every
\* active order created after it and leaves that of every active order
\* created before it.
C24_RankIsCreationOrder ==
  [][/\ \A i \in ActiveIds(orders) :
          getQueuePosition(orders[i], orders) = CallRank(i)
     /\ \A p \in DOMAIN patch :
          /\ Saves(p, "pending", "preparing") =>
               \A i \in ActiveIds(orders) :
                 getQueuePosition(orders'[i], orders') = getQueuePosition(orders[i], orders)
          /\ Saves(p, "preparing", "ready") =>
               \A i \in ActiveIds(orders') :
                 getQueuePosition(orders'[i], orders')
                   = IF hist[i].call > hist[patch[p].id].call
                     THEN getQueuePosition(orders[i], orders) - 1
                     ELSE getQueuePosition(orders[i], orders)]_vars

\* ---------------------------------------------------------------- C25
\* What a request may name that is the id of no stored order: a text that is
\* not an ObjectId, or an ObjectId that is not in the repository.
AbsentIds == (MySegment..(Len(orders) + 1)) \ OrderIds

\* The step answers 404 for route `op`, changes no order, starts no
\* broadcast and emits nothing.
NotFoundOnly(op) ==
  /\ res'.op = op
  /\ res'.code = 404
  /\ orders' = orders
  /\ cycles' = cycles
  /\ emitted'.msgs = <<>>

\* C25: a fetch, or a transition request that passed auth and validation,
\* naming an id that is the id of no stored order is answered 404; no order is
\* created or changed and nothing is emitted.
C25_UnknownIdIsNotFound ==
  [][\A id \in AbsentIds :
       /\ \A g \in DOMAIN get : GetFind(g, id) => NotFoundOnly("GET")
       /\ \A p \in DOMAIN patch, status \in {"preparing", "ready", "completed"} :
            PatchFind(p, "admin", id, status) => NotFoundOnly("PATCH")]_vars

\* ---------------------------------------------------------------- C26
\* C26: an order enters the repository with status pending, and no step sets
\* the status of a stored order to pending: a transition request that asks
\* for pending is refused with 400 and no save is issued.
C26_PendingOnlyAtCreation ==
  [][/\ \A i \in DOMAIN orders' \ DOMAIN orders : orders'[i].status = "pending"
     /\ \A i \in DOMAIN orders :
          orders'[i].status = "pending" => orders[i].status = "pending"
     /\ \A p \in DOMAIN patch, id \in OrderIds :
          PatchFind(p, "admin", id, "pending") =>
            /\ res'.op = "PATCH"
            /\ res'.code = 400
            /\ res'.type = "Cannot transition"
            /\ patch' = patch]_vars

\* An order created in this run and moved to preparing was asked back to
\* pending: the request is refused and the order is still preparing.
C26_Witness ==
  /\ res.op = "PATCH"
  /\ res.code = 400
  /\ res.type = "Cannot transition"
  /\ res.status = "pending"
  /\ hist[res.id].call >= 1
  /\ orders[res.id].status = "preparing"

\* ---------------------------------------------------------------- C27
\* C27: no step removes a stored order: every order stored before a step is
\* stored after it, under the same id, with its owner, its lines and its
\* createdAt.
C27_OrdersAreNeverRemoved ==
  [][/\ Len(orders') >= Len(orders)
     /\ \A i \in DOMAIN orders :
          /\ i \in DOMAIN orders'
          /\ orders'[i].userId = orders[i].userId
          /\ orders'[i].items = orders[i].items
          /\ orders'[i].createdAt = orders[i].createdAt]_vars

\* The customer's account and cart and the catalog item ordered were deleted;
\* the customer's order is still stored.
C27_Witness ==
  /\ Len(orders) >= 1
  /\ orders[1].userId = 1
  /\ orders[1].items[1].menuItemId = 1
  /\ 1 \notin DOMAIN users
  /\ 1 \notin DOMAIN carts
  /\ 1 \notin DOMAIN menu

\* ---------------------------------------------------------------- C28
\* An answer that lists the orders of customer `userId`: each entry has that
\* owner, and a queue position exactly when it is pending or preparing.
OwnListing(r, userId) ==
  /\ r.op = "MY"
  /\ r.code = 200
  /\ \A k \in DOMAIN r.orders :
       /\ r.orders[k].userId = userId
       /\ r.orders[k].queuePosition # <<>>
            <=> r.orders[k].status \in ActiveStatuses

\* C28: a GET /api/orders/my request of the customer is answered with a list
\* of the customer's own orders, each with a position exactly when active.
\* The request is the one the router hands to the handler of /:id, with the
\* segment "my" as the id.
C28_OwnOrdersListed ==
  [][\A g \in DOMAIN get :
       GetFind(g, MySegment) => OwnListing(res', decoded("user").id)]_vars

\* ---------------------------------------------------------------- C29
\* C29: where no transition request carries an admin or a kitchen token,
\* no transition request succeeds, no order changes its status and no
\* message is emitted.
C29_OnlyStaffTransitions ==
  [][/\ res'.op = "PATCH" => res'.code # 200
     /\ \A i \in DOMAIN orders : orders'[i].status = orders[i].status
     /\ emitted'.msgs = <<>>]_vars

\* ---------------------------------------------------------------- C30
\* C30: while an order is active, the position a query or a snapshot taken
\* now gives it is not above the position its creation response reported.
C30_PositionNeverIncreases ==
  \A i \in DOMAIN orders :
    (isActive(orders[i]) /\ hist[i].createdPos >= 1)
      => getQueuePosition(orders[i], orders) <= hist[i].createdPos

\* C31: in every repository state, for every active order, the position the
\* position query returns (earlier active orders plus 1) equals the
\* queuePosition the broadcaster gives that order in a snapshot built from
\* the same state (index in the sorted active list plus 1).
C31_PositionDerivationsAgree ==
  \A s \in findActiveSorted(orders) :
    LET data == queueData([k \in DOMAIN s |-> Doc(orders, s[k])])
    IN \A k \in DOMAIN data :
         getQueuePosition(orders[data[k].orderId], orders) = data[k].queuePosition

\* The step in which the transition request of slot p into ready is answered 200.
ReadyAnswered(p) ==
  /\ patch[p].pc = "saved"
  /\ patch[p].status = "ready"
  /\ patch'[p].pc = "idle"
  /\ res'.op = "PATCH"
  /\ res'.code = 200

\* The messages of a step that a run of emitQueueUpdate published.
SnapshotMsgs(e) ==
  {k \in DOMAIN e.msgs : e.by = "emitQueueUpdate"
                         \/ e.msgs[k].event \in {"queue:position", "kitchen:queue"}}

\* C33: for a successful transition into ready, the status ready is in the
\* repository before the order:ready notice is published to the order's room,
\* and the notice is published before the queue snapshot the transition
\* triggers: when the notice goes out, the run of emitQueueUpdate the
\* transition starts has not read the repository yet.
C33_WriteThenNoticeThenSnapshot ==
  [][\A p \in DOMAIN patch :
       ReadyAnswered(p) =>
         /\ orders[patch[p].id].status = "ready"
         /\ orders' = orders
         /\ emitted'.by = "emitOrderReady"
         /\ emitted'.msgs[1] = [room |-> "order", id |-> patch[p].id,
                                event |-> "order:ready",
                                data |-> [orderId |-> patch[p].id]]
         /\ SnapshotMsgs(emitted') = {}
         /\ \E y \in DOMAIN cycles :
              /\ cycles[y].pc = "idle"
              /\ cycles'[y].pc = "find"
              /\ \A z \in DOMAIN cycles \ {y} : cycles'[z] = cycles[z]]_vars

C33_Witness ==
  /\ res.op = "PATCH"
  /\ res.code = 200
  /\ res.status = "ready"
  /\ orders[res.id].status = "ready"
  /\ emitted.by = "emitOrderReady"
  /\ \E y \in DOMAIN cycles : cycles[y].pc = "find"

\* The fields of a stored order other than its status; the _id is the index.
Rest(doc) ==
  [userId |-> doc.userId, customerName |-> doc.customerName, items |-> doc.items,
   totalAmount |-> doc.totalAmount, createdAt |-> doc.createdAt]

\* C35: a successful status transition changes only the status of the
\* addressed order: the write of the transition keeps the order's id, userId,
\* customerName, items, totalAmount and createdAt and every other order, and
\* no other step of the request (the lookup, the answer) changes an order.
C35_TransitionChangesStatusOnly ==
  [][\A p \in DOMAIN patch :
       /\ (patch[p].pc = "save" /\ patch'[p].pc = "saved") =>
            /\ DOMAIN orders' = DOMAIN orders
            /\ orders'[patch[p].id].status = patch[p].status
            /\ Rest(orders'[patch[p].id]) = Rest(orders[patch[p].id])
            /\ \A i \in DOMAIN orders \ {patch[p].id} : orders'[i] = orders[i]
       /\ (patch'[p] # patch[p] /\ ~(patch[p].pc = "save" /\ patch'[p].pc = "saved")) =>
            orders' = orders]_vars

C35_Witness ==
  \E p \in DOMAIN patch :
    /\ patch[p].pc = "saved"
    /\ Len(orders) = 2
    /\ orders[patch[p].id].status = patch[p].status
    /\ patch[p].read # patch[p].status
    /\ \E i \in DOMAIN orders \ {patch[p].id} : orders[i].status # patch[p].status

\* The step stores the order of the create-from-cart request of slot f.
StoresOrder(f) ==
  /\ fromcart[f].pc = "insert"
  /\ fromcart'[f].pc = "count"

\* The create-from-cart request of slot g has stored its order and has not
\* finished; the order was built from the cart document with this _id and __v.
StoredFrom(g, cart) ==
  /\ fromcart[g].pc \in {"count", "clear"}
  /\ fromcart[g].cart.id = cart.id
  /\ fromcart[g].cart.v = cart.v
  /\ fromcart[g].cart.items = cart.items

\* The step empties the customer's cart for the request of slot f.
ClearsCart(f) ==
  /\ fromcart[f].pc = "clear"
  /\ res'.op = "FROMCART"
  /\ res'.code = 201

\* C34: one filling of a cart yields at most one order: no create-from-cart
\* request stores an order built from the cart document from which another
\* request of the customer, still in flight, has stored one; and the cart
\* that a create-from-cart request empties holds exactly the items of its
\* order, so that no item added meanwhile is erased without being ordered.
C34_OneOrderPerFilling ==
  [][\A f \in DOMAIN fromcart :
       /\ StoresOrder(f) =>
            ~\E g \in DOMAIN fromcart \ {f} : StoredFrom(g, fromcart[f].cart)
       /\ ClearsCart(f) =>
            /\ carts[fromcart[f].user.id].items = fromcart[f].cart.items
            /\ Lines(fromcart[f].doc.items) = carts[fromcart[f].user.id].items]_vars

\* The step just taken emitted order:ready to the room of order `id`.
ReadyNotice(id) ==
  /\ emitted.by = "emitOrderReady"
  /\ \E k \in DOMAIN emitted.msgs :
       /\ emitted.msgs[k].event = "order:ready"
       /\ emitted.msgs[k].room = "order"
       /\ emitted.msgs[k].id = id

\* C32: each order receives the order:ready notification at most once, also
\* when several transition requests into ready for the same order run
\* concurrently: once a notice for the order has been emitted and other steps
\* have followed, no step emits a notice for that order again.
C32_ReadyNoticeAtMostOnce ==
  \A id \in 1..MaxOrders :
    [](ReadyNotice(id) => [](~ReadyNotice(id) => []~ReadyNotice(id)))

====
